---- MODULE Spec2Model ----
(***************************************************************************)
(* Repository / commit synchronisation and caching layer of the backend:   *)
(* GitHubService (services/github_service.py), RepositoryService           *)
(* (services/repository_service.py), CommitHistoryService                  *)
(* (services/commit_history_service.py), UserService                       *)
(* (services/user_service.py) over the tables of models.py.                *)
(*                                                                         *)
(* Conventions.  An Optional value is a set with at most one element:      *)
(* None is {} and a present value x is {x}.  Times are minutes.  A         *)
(* datetime is a record [t, aware, off]: wall-clock reading t, and, when   *)
(* aware, its UTC offset off.  A Python dict that may lack a key carries   *)
(* the value Missing under that key.                                       *)
(***************************************************************************)
EXTENDS Integers, Sequences, FiniteSets, TLC

VARIABLES
    users,      \* table user_account: user id -> row
    repos,      \* table repository: set of rows
    commits,    \* table commit_history: set of rows
    now,        \* the UTC clock, in minutes
    env,        \* the deployment: UTC offsets (minutes) of the server's local
                \* time zone (tz) and of the database session's (dbtz)
    sessions,   \* open database sessions of requests in flight: id -> session
    last        \* the last request served: its inputs and its outcome

vars == <<users, repos, commits, now, env, sessions, last>>

----------------------------------------------------------------------------
(* Optional values *)

None == {}
Some(x) == {x}
IsNone(o) == o = {}
The(o) == CHOOSE x \in o : TRUE

Missing == "<missing>"

----------------------------------------------------------------------------
(* Bounds of the model *)

MaxRemote == 2          \* longest repository list the upstream returns
MaxRepoId == 2          \* upstream repository ids are 1..MaxRepoId

UserIds == {1, 2}       \* rows of user_account
NoUser == Cardinality(UserIds) + 1
GhIds == 1 .. MaxRepoId
RepoNames == {"a", "b"}
ETags == {"E1", "E2"}

Stamps == <<10, 20>>    \* two upstream "updated_at" instants, T1 < T2
T1 == Stamps[1]
T2 == Stamps[2]

----------------------------------------------------------------------------
(* datetime values and the timestamp strings of the upstream payload *)

Naive(t) == [t |-> t, aware |-> FALSE, off |-> 0]
Aware(t, off) == [t |-> t, aware |-> TRUE, off |-> off]

\* The UTC instant a datetime denotes (a naive one is taken to be UTC).
Instant(dt) == IF dt.aware THEN dt.t - dt.off ELSE dt.t

\* A timestamp string: shape "Z" (t followed by Z), "plus" (t+HH:MM),
\* "minus" (t-HH:MM), "naive" (t alone), "bad" (not ISO 8601).
StrZ(t) == [shape |-> "Z", t |-> t, off |-> 0]
StrPlus(t, off) == [shape |-> "plus", t |-> t, off |-> off]
StrMinus(t, off) == [shape |-> "minus", t |-> t, off |-> 0 - off]
StrNaive(t) == [shape |-> "naive", t |-> t, off |-> 0]
StrBad == [shape |-> "bad", t |-> 0, off |-> 0]

\* datetime.fromisoformat on the string without a trailing Z.
FromIso(s) ==
    CASE s.shape \in {"Z", "naive"} -> [raised |-> FALSE, val |-> Naive(s.t)]
      [] s.shape \in {"plus", "minus"} -> [raised |-> FALSE, val |-> Aware(s.t, s.off)]
      [] OTHER -> [raised |-> TRUE, val |-> Naive(0)]

\* RepositoryService._parse_github_datetime.  The except branch calls
\* logger.warning(msg, datetime_str=..., e=...): Logger._log takes no such
\* keywords, so the handler itself raises TypeError.
ParseGithubDatetime(o) ==
    IF IsNone(o) THEN [raised |-> FALSE, val |-> None]
    ELSE LET s == The(o) r == FromIso(s) IN
         IF r.raised THEN [raised |-> TRUE, val |-> None]
         ELSE IF s.shape = "Z" THEN [raised |-> FALSE, val |-> Some(r.val)]
         ELSE IF s.shape = "plus"
              THEN [raised |-> FALSE, val |-> Some(Naive(Instant(r.val)))]
              ELSE [raised |-> FALSE, val |-> Some(r.val)]

\* (mutant) the offset is dropped without converting to UTC.
NormalizeDatetime_Strip(o) ==
    IF IsNone(o) THEN None ELSE Some(Naive(The(o).t))

\* RepositoryService._normalize_datetime
NormalizeDatetime(o) ==
    IF IsNone(o) THEN None
    ELSE IF The(o).aware THEN Some(Naive(Instant(The(o)))) ELSE o

\* RepositoryService._get_current_utc_datetime
GetCurrentUtcDatetime == Naive(now)

\* datetime.now() without a zone: the server's local wall clock.
LocalNow == Naive(now + env.tz)

\* SQL now() stored in a TIMESTAMP column: the wall clock of the session's zone.
DbNow == Naive(now + env.dbtz)

\* A datetime written to a TIMESTAMP (without time zone) column: an aware
\* value is converted to the wall clock of the session's zone.
DbTimestamp(dt) == IF dt.aware THEN Naive(Instant(dt) + env.dbtz) ELSE dt

----------------------------------------------------------------------------
(* Tables *)

\* Row of table repository (models.py).  `name` stands for the columns that
\* are copied verbatim from the payload (name, full_name, description, ...).
RepoRow(id, gh, u, name, upd, arch, synced) ==
    [id |-> id, github_repo_id |-> gh, user_id |-> u, name |-> name,
     repo_updated_at |-> upd, archived |-> arch, is_favorited |-> FALSE,
     access_count |-> 0, last_synced_at |-> synced]

\* UserService.get_user_by_id: Some(row) or None.
GetUserById(us, u) == IF u \in DOMAIN us THEN Some(us[u]) ELSE None

\* GitHubService.get_user_token
GetUserToken(us, u) ==
    IF IsNone(GetUserById(us, u)) THEN None
    ELSE Some(The(GetUserById(us, u)).github_access_token)

\* RepositoryService.get_user_repositories (the ORDER BY is not modelled:
\* the result is the set of rows).
GetUserRepositories(rs, u, include_archived) ==
    {r \in rs : r.user_id = u /\ (include_archived \/ ~r.archived)}

\* GitHubService._repo_to_dict, reduced to the key "id".
ReposToIds(rows) == {r.github_repo_id : r \in rows}

----------------------------------------------------------------------------
(* A database session: the unit of work flushed by commit *)

\* Columns whose value differs from the loaded one: the ORM emits an UPDATE
\* for these columns only.
ChangedCols(old, new) == {c \in DOMAIN old : old[c] # new[c]}

NetChange(old, new) ==
    [id |-> old.id, set |-> [c \in ChangedCols(old, new) |-> new[c]]]

ApplyUpdate(row, upd) ==
    [c \in DOMAIN row |-> IF c \in DOMAIN upd.set THEN upd.set[c] ELSE row[c]]

EmptyPlan == [updates |-> {}, inserts |-> <<>>]

\* (mutant) the column declared without unique=True.
UniqueViolation_Off(rs, inserts) == FALSE

\* The unique constraint on repository.github_repo_id (models.py).
UniqueViolation(rs, inserts) ==
    \/ \E i \in 1 .. Len(inserts) :
          \E r \in rs : r.github_repo_id = inserts[i].github_repo_id
    \/ \E i, j \in 1 .. Len(inserts) :
          i # j /\ inserts[i].github_repo_id = inserts[j].github_repo_id

\* A repository row as the table holds it: repo_updated_at is a TIMESTAMP
\* column, an aware value assigned to it is stored without its offset.
StoredRepoRow(r) ==
    [r EXCEPT !.repo_updated_at = IF IsNone(@) THEN @ ELSE Some(DbTimestamp(The(@)))]

\* Session.commit: flush the pending UPDATEs and INSERTs in one
\* transaction; an IntegrityError rolls all of it back.  New rows take the
\* next values of the id sequence (gaps left by rolled back inserts are not
\* modelled; no code path deletes a repository row).
CommitPlan(rs, plan) ==
    IF UniqueViolation(rs, plan.inserts)
    THEN [ok |-> FALSE, repos |-> rs]
    ELSE LET updated == {IF \E p \in plan.updates : p.id = r.id
                         THEN ApplyUpdate(r, CHOOSE p \in plan.updates : p.id = r.id)
                         ELSE r : r \in rs}
             base == Cardinality(rs)
             added == {[plan.inserts[i] EXCEPT !.id = base + i] :
                          i \in 1 .. Len(plan.inserts)}
         IN [ok |-> TRUE, repos |-> {StoredRepoRow(r) : r \in updated \cup added}]

----------------------------------------------------------------------------
(* RepositoryService.sync_repositories_incremental *)

\* An entry of the upstream repository list: a dict with the keys id, name,
\* updated_at and archived (name may be Missing, updated_at may be None).
RemoteEntry(id, name, upd, arch) ==
    [id |-> id, name |-> name, updated_at |-> upd, archived |-> arch]

\* {repo['id']: repo for repo in github_repos}: the last entry of an id wins.
GithubRepoMap(github_repos) ==
    [k \in {github_repos[i].id : i \in DOMAIN github_repos} |->
        github_repos[CHOOSE i \in DOMAIN github_repos :
            /\ github_repos[i].id = k
            /\ \A j \in DOMAIN github_repos : github_repos[j].id = k => j <= i]]

\* (mutant) the loop runs over the list, not over the dict.
RECURSIVE DictKeys_EachEntry(_, _)
DictKeys_EachEntry(list, seen) ==
    IF list = <<>> THEN <<>>
    ELSE <<Head(list).id>> \o DictKeys_EachEntry(Tail(list), seen)

\* The keys of that dict in iteration order (order of first insertion).
RECURSIVE DictKeys(_, _)
DictKeys(list, seen) ==
    IF list = <<>> THEN <<>>
    ELSE IF Head(list).id \in seen THEN DictKeys(Tail(list), seen)
    ELSE <<Head(list).id>> \o DictKeys(Tail(list), seen \cup {Head(list).id})

ZeroStats == [created |-> 0, updated |-> 0, deleted |-> 0, unchanged |-> 0]

\* The update check of the loop: remote strictly newer than the stored
\* value, or the stored value absent, and in both cases the remote present.
NeedsUpdate(github_updated, stored) ==
    /\ ~IsNone(github_updated)
    /\ \/ IsNone(stored)
       \/ The(NormalizeDatetime(github_updated)).t > The(NormalizeDatetime(stored)).t

\* (mutant) the update also resets the local flags to their defaults.
UpdateRepositoryFromGithubData_Reset(repo, data, clock) ==
    [repo EXCEPT !.name = data.name,
                 !.repo_updated_at = ParseGithubDatetime(data.updated_at).val,
                 !.archived = data.archived,
                 !.is_favorited = FALSE,
                 !.access_count = 0,
                 !.last_synced_at = Some(clock)]

\* RepositoryService._update_repository_from_github_data
UpdateRepositoryFromGithubData(repo, data, clock) ==
    [repo EXCEPT !.name = data.name,
                 !.repo_updated_at = ParseGithubDatetime(data.updated_at).val,
                 !.archived = data.archived,
                 !.last_synced_at = Some(clock)]

\* RepositoryService._create_repository_from_github_data (is_favorited and
\* access_count take the column defaults FALSE and 0; id is set on flush).
CreateRepositoryFromGithubData(u, data, clock) ==
    RepoRow(0, data.id, u, data.name,
            ParseGithubDatetime(data.updated_at).val, data.archived, Some(clock))

Fault(acc, what) == [acc EXCEPT !.outcome = what]

\* The first loop of the sync, over the remote repositories.
RECURSIVE SyncLoop(_, _, _, _, _, _)
SyncLoop(keys, map, existing, u, clock, acc) ==
    IF keys = <<>> \/ acc.outcome # "ok" THEN acc
    ELSE LET data == map[Head(keys)]
             parsed == ParseGithubDatetime(data.updated_at)
             step ==
               IF \E r \in existing : r.github_repo_id = data.id
               THEN LET old == CHOOSE r \in existing : r.github_repo_id = data.id IN
                    IF parsed.raised THEN Fault(acc, "TypeError")
                    ELSE IF NeedsUpdate(parsed.val, old.repo_updated_at)
                    THEN IF data.name = Missing THEN Fault(acc, "KeyError")
                         ELSE [acc EXCEPT
                                 !.plan.updates = @ \cup
                                     {NetChange(old, UpdateRepositoryFromGithubData(old, data, clock))},
                                 !.stats.updated = @ + 1]
                    ELSE [acc EXCEPT !.stats.unchanged = @ + 1]
               ELSE IF data.name = Missing THEN Fault(acc, "KeyError")
                    ELSE IF parsed.raised THEN Fault(acc, "TypeError")
                    ELSE [acc EXCEPT
                            !.plan.inserts = Append(@, CreateRepositoryFromGithubData(u, data, clock)),
                            !.stats.created = @ + 1]
         IN SyncLoop(Tail(keys), map, existing, u, clock, step)

\* (mutant) the second loop counts the missing repositories and leaves
\* their flag alone.
ArchiveMissing_Skip(map, existing, acc) ==
    LET gone == {r \in existing : r.github_repo_id \notin DOMAIN map} IN
    IF acc.outcome # "ok" THEN acc
    ELSE [acc EXCEPT !.stats.deleted = @ + Cardinality(gone)]

\* The second loop: local repositories the upstream no longer lists are
\* archived (each one counted, also when it was archived already).
ArchiveMissing(map, existing, acc) ==
    LET gone == {r \in existing : r.github_repo_id \notin DOMAIN map} IN
    IF acc.outcome # "ok" THEN acc
    ELSE [acc EXCEPT
            !.plan.updates = @ \cup {NetChange(r, [r EXCEPT !.archived = TRUE]) : r \in gone},
            !.stats.deleted = @ + Cardinality(gone)]

\* Everything of sync_repositories_incremental up to its commit: the rows
\* read, the pending changes of the session, the counters.
SyncPlan(rs, u, github_repos, clock) ==
    LET existing == {r \in rs : r.user_id = u}
        map == GithubRepoMap(github_repos)
        start == [outcome |-> "ok", plan |-> EmptyPlan, stats |-> ZeroStats]
    IN ArchiveMissing(map, existing,
           SyncLoop(DictKeys(github_repos, {}), map, existing, u, clock, start))

\* (mutant) the session flushes and commits inside the loop, so that the
\* changes made before a fault stay.
SyncRepositoriesIncremental_CommitEach(rs, u, github_repos, clock) ==
    LET p == SyncPlan(rs, u, github_repos, clock)
        c == CommitPlan(rs, p.plan)
    IN IF ~c.ok THEN [outcome |-> "IntegrityError", repos |-> rs, stats |-> p.stats]
       ELSE [outcome |-> p.outcome, repos |-> c.repos, stats |-> p.stats]

\* sync_repositories_incremental run without interruption.
SyncRepositoriesIncremental(rs, u, github_repos, clock) ==
    LET p == SyncPlan(rs, u, github_repos, clock)
        c == CommitPlan(rs, p.plan)
    IN IF p.outcome # "ok" THEN [outcome |-> p.outcome, repos |-> rs, stats |-> p.stats]
       ELSE IF ~c.ok THEN [outcome |-> "IntegrityError", repos |-> rs, stats |-> p.stats]
       ELSE [outcome |-> "ok", repos |-> c.repos, stats |-> p.stats]

----------------------------------------------------------------------------
(* GitHubService: the repository list *)

MaxAgeHours == 1        \* default max_age_hours of _get_cached_repos

\* A response of the upstream: an HTTP status with the ETag header and the
\* decoded body, or a transport failure (requests.RequestException).
HttpResponse(status, etag, body) ==
    [kind |-> "http", status |-> status, etag |-> etag, body |-> body]
TransportFailure == [kind |-> "transport", status |-> 0, etag |-> None, body |-> <<>>]
NoResponse == [kind |-> "none", status |-> 0, etag |-> None, body |-> <<>>]

\* What a call of get_user_repos yields: the exception it raises ("ok" when
\* it returns), whether the upstream was called and with which
\* If-None-Match header, and the keys of the returned dict.
NoResult ==
    [outcome |-> "ok", called |-> FALSE, sent |-> None, status_code |-> 0,
     source |-> "none", data |-> {}, sync_stats |-> ZeroStats,
     etag_updated |-> FALSE, new_etag |-> None, cache_hit |-> FALSE]

Raise(res, what) == [res EXCEPT !.outcome = what]

\* The query of _get_cached_repos: a repository of the user synced after
\* the cutoff.  The cutoff is taken from datetime.now(), the local wall
\* clock, while last_synced_at holds naive UTC readings.
RecentRepo(rs, u) ==
    LET cutoff_time == LocalNow.t - 60 * MaxAgeHours IN
    {r \in rs : /\ r.user_id = u
                /\ ~IsNone(r.last_synced_at)
                /\ The(r.last_synced_at).t > cutoff_time}

\* GitHubService._get_cached_repos.  On a hit the method reads the
\* repositories and then calls logger.info(msg, user_id=user_id); the
\* logger is enabled for INFO and Logger._log takes no such keyword, so the
\* call raises TypeError before the result dict is built.
GetCachedRepos(rs, u) ==
    IF RecentRepo(rs, u) # {}
    THEN [hit |-> TRUE, res |-> Raise(NoResult, "TypeError")]
    ELSE [hit |-> FALSE, res |-> NoResult]

\* GitHubService._store_etag.  preferences is a plain JSON column: assigning
\* a new dict marks the row dirty, mutating the loaded dict in place does
\* not, and commit then writes nothing and expires the loaded row.
StoreEtag(us, u, etag) ==
    IF IsNone(GetUserById(us, u)) THEN us
    ELSE IF IsNone(us[u].preferences)
    THEN [us EXCEPT ![u].preferences =
             Some([repos_etag |-> etag, repos_etag_updated_at |-> LocalNow.t])]
    ELSE us

\* (mutant) the validator is read also when forcing.
StoredEtag_IgnoreForce(us, u, force_refresh) ==
    IF ~IsNone(us[u].preferences)
    THEN Some(The(us[u].preferences).repos_etag)
    ELSE None

\* The validator read from the preferences (skipped when forcing).
StoredEtag(us, u, force_refresh) ==
    IF ~IsNone(us[u].preferences) /\ ~force_refresh
    THEN Some(The(us[u].preferences).repos_etag)
    ELSE None

\* (mutant) every 2xx status is taken as success.
IsOk_Any2xx(status) == status \in 200 .. 299

\* The status the fetch takes for "changed or new data".
IsOk(status) == status = 200

\* (mutant) a 304 marks the stored repositories of the user as synced now.
NotModified_Touch(us, rs, u, req) ==
    [users |-> us,
     repos |-> {IF r.user_id = u
                THEN [r EXCEPT !.last_synced_at = Some(GetCurrentUtcDatetime)]
                ELSE r : r \in rs},
     res |-> [req EXCEPT !.status_code = 304, !.source = "etag_cache",
                         !.data = ReposToIds(GetUserRepositories(rs, u, FALSE))]]

\* _fetch_repos_with_etag, status 304: the stored repositories are returned.
NotModified(us, rs, u, req) ==
    [users |-> us, repos |-> rs,
     res |-> [req EXCEPT !.status_code = 304, !.source = "etag_cache",
                         !.data = ReposToIds(GetUserRepositories(rs, u, FALSE))]]

\* _fetch_repos_with_etag, status 200, up to the sync: the validator of the
\* response is stored (and committed) when the response carries one.
StoreResponseEtag(us, u, resp) ==
    IF IsNone(resp.etag) THEN us ELSE StoreEtag(us, u, The(resp.etag))

\* The dict returned after a sync that returned.
SyncResult(req, resp, stats) ==
    [req EXCEPT !.status_code = 200, !.source = "github_api",
                !.data = {resp.body[i].id : i \in DOMAIN resp.body},
                !.sync_stats = stats,
                !.etag_updated = ~IsNone(resp.etag),
                !.new_etag = resp.etag]

\* _fetch_repos_with_etag, status 200.
Modified(us, rs, u, req, resp) ==
    LET sync == SyncRepositoriesIncremental(rs, u, resp.body, GetCurrentUtcDatetime) IN
    [users |-> StoreResponseEtag(us, u, resp),
     repos |-> sync.repos,
     res |-> IF sync.outcome # "ok" THEN Raise(req, sync.outcome)
             ELSE SyncResult(req, resp, sync.stats)]

\* The request of _fetch_repos_with_etag: called, with the If-None-Match
\* header it carries.
RepoRequest(us, u, force_refresh) ==
    [NoResult EXCEPT !.called = TRUE, !.sent = StoredEtag(us, u, force_refresh)]

\* GitHubService._fetch_repos_with_etag: the tables and the result after
\* the call, for the response `resp` of the upstream.
FetchReposWithEtag(us, rs, u, force_refresh, resp) ==
    IF IsNone(GetUserToken(us, u))
    THEN \* logger.error(msg, user_id=user_id) raises before the ValueError
         [users |-> us, repos |-> rs, res |-> Raise(NoResult, "TypeError")]
    ELSE LET req == RepoRequest(us, u, force_refresh) IN
         IF resp.kind = "transport"
         THEN [users |-> us, repos |-> rs, res |-> Raise(req, "ConnectionError")]
         ELSE IF resp.status = 304 THEN NotModified(us, rs, u, req)
         ELSE IF IsOk(resp.status) THEN Modified(us, rs, u, req, resp)
         ELSE [users |-> us, repos |-> rs, res |-> Raise(req, "ConnectionError")]

\* GitHubService.get_user_repos
GetUserReposResult(us, rs, u, force_refresh, resp) ==
    IF ~force_refresh /\ GetCachedRepos(rs, u).hit
    THEN [users |-> us, repos |-> rs, res |-> GetCachedRepos(rs, u).res]
    ELSE FetchReposWithEtag(us, rs, u, force_refresh, resp)

----------------------------------------------------------------------------
(* CommitHistoryService and the commit operations of GitHubService *)

MaxAgeMinutes == 30     \* max_age_minutes passed by get_commits

\* An entry of the upstream commit list.  files is None when the entry has
\* no key "files" (a listing), else the per-file changes (a detail).
CommitEntry(sha, message, email, date, files) ==
    [sha |-> sha, message |-> message, email |-> email, date |-> date, files |-> files]

FileChange(additions, deletions) == [additions |-> additions, deletions |-> deletions]

RECURSIVE SumOf(_, _)
SumOf(files, field) ==
    IF files = <<>> THEN 0 ELSE Head(files)[field] + SumOf(Tail(files), field)

\* (mutant) the lookup without the filter on archived.
RepositoriesByName_WithArchived(rs, u, repo_name) ==
    {r \in rs : r.user_id = u /\ r.name = repo_name}

\* RepositoryService.get_repository_by_name: the rows among which first()
\* picks one (no ORDER BY).
RepositoriesByName(rs, u, repo_name) ==
    {r \in rs : r.user_id = u /\ r.name = repo_name /\ ~r.archived}

\* (mutant) the request is not counted.
IncrementAccessCount_Skip(rs, repository_id) == rs

\* RepositoryService.increment_access_count
IncrementAccessCount(rs, repository_id) ==
    {IF r.id = repository_id THEN [r EXCEPT !.access_count = @ + 1] ELSE r : r \in rs}

\* (mutant) the row is looked up by its id alone.
ToggleFavorite_AnyOwner(rs, u, repository_id) ==
    LET found == {r \in rs : r.id = repository_id} IN
    IF found = {} THEN [repos |-> rs, ret |-> FALSE]
    ELSE [repos |-> (rs \ found)
                    \cup {[r EXCEPT !.is_favorited = ~@] : r \in found},
          ret |-> \E r \in found : ~r.is_favorited]

\* RepositoryService.toggle_favorite: the table after the call and the
\* value returned (read back from the row after the commit).
ToggleFavorite(rs, u, repository_id) ==
    LET found == {r \in rs : r.id = repository_id /\ r.user_id = u} IN
    IF found = {} THEN [repos |-> rs, ret |-> FALSE]
    ELSE [repos |-> (rs \ found)
                    \cup {[r EXCEPT !.is_favorited = ~@] : r \in found},
          ret |-> \E r \in found : ~r.is_favorited]

\* CommitHistoryService.get_commit_by_sha, as a set of at most one row.
GetCommitBySha(cs, repository_id, sha) ==
    {c \in cs : c.repository_id = repository_id /\ c.commit_sha = sha}

\* CommitHistoryService.get_cached_commits (limit and order not modelled).
GetCachedCommits(cs, repository_id, max_age_minutes) ==
    LET cutoff_time == LocalNow.t - max_age_minutes IN
    {c \in cs : c.repository_id = repository_id /\ c.cached_at.t > cutoff_time}

\* The commit_info dict built by _save_commits_to_history: committed_at is
\* fromisoformat(date.replace('Z', '+00:00')), an aware value for a Z date.
\* has_files tells whether the four file keys are in the dict.
CommitInfo(repository_id, d) ==
    LET s == The(d.date)
        iso == IF s.shape = "Z" THEN FromIso(StrPlus(s.t, 0)) ELSE FromIso(s)
    IN [raised |-> IsNone(d.date) \/ iso.raised,
        repository_id |-> repository_id,
        commit_sha |-> d.sha,
        commit_message |-> d.message,
        author_email |-> d.email,
        committed_at |-> IF IsNone(d.date) THEN Naive(0) ELSE iso.val,
        has_files |-> ~IsNone(d.files),
        files_changed |-> d.files,
        file_count |-> IF IsNone(d.files) THEN 0 ELSE Len(The(d.files)),
        additions |-> IF IsNone(d.files) THEN 0 ELSE SumOf(The(d.files), "additions"),
        deletions |-> IF IsNone(d.files) THEN 0 ELSE SumOf(The(d.files), "deletions")]

\* (mutant) the stored row is replaced by a row built from the dict alone.
CommitRow_Replace(info, old) ==
    [repository_id |-> info.repository_id,
     commit_sha |-> info.commit_sha,
     commit_message |-> info.commit_message,
     author_email |-> info.author_email,
     committed_at |-> DbTimestamp(info.committed_at),
     files_changed |-> IF info.has_files THEN info.files_changed ELSE None,
     file_count |-> IF info.has_files THEN info.file_count ELSE 0,
     additions |-> IF info.has_files THEN info.additions ELSE 0,
     deletions |-> IF info.has_files THEN info.deletions ELSE 0,
     cached_at |-> IF IsNone(old) THEN DbNow ELSE LocalNow]

\* The row a commit_info dict gives: over the stored row `old` when there is
\* one (only the keys of the dict are set, cached_at is datetime.now()),
\* else a new row (column defaults 0 and NULL, cached_at is SQL now()).
CommitRow(info, old) ==
    LET fresh == IsNone(old) IN
    [repository_id |-> info.repository_id,
     commit_sha |-> info.commit_sha,
     commit_message |-> info.commit_message,
     author_email |-> info.author_email,
     committed_at |-> DbTimestamp(info.committed_at),
     files_changed |-> IF info.has_files THEN info.files_changed
                       ELSE IF fresh THEN None ELSE The(old).files_changed,
     file_count |-> IF info.has_files THEN info.file_count
                    ELSE IF fresh THEN 0 ELSE The(old).file_count,
     additions |-> IF info.has_files THEN info.additions
                   ELSE IF fresh THEN 0 ELSE The(old).additions,
     deletions |-> IF info.has_files THEN info.deletions
                   ELSE IF fresh THEN 0 ELSE The(old).deletions,
     cached_at |-> IF fresh THEN DbNow ELSE LocalNow]

\* (mutant) the fault is reported and the write is kept.
SaveCommitHistory_NoRollback(cs, info, fault) ==
    LET found == GetCommitBySha(cs, info.repository_id, info.commit_sha) IN
    [commits |-> (cs \ found) \cup {CommitRow(info, found)}, saved |-> ~fault]

\* CommitHistoryService.save_commit_history; `fault` is a persistence fault
\* raised by the database during the call: rollback, nothing saved.
SaveCommitHistory(cs, info, fault) ==
    LET found == GetCommitBySha(cs, info.repository_id, info.commit_sha) IN
    IF fault THEN [commits |-> cs, saved |-> FALSE]
    ELSE [commits |-> (cs \ found) \cup {CommitRow(info, found)}, saved |-> TRUE]

\* GitHubService._save_commits_to_history: every entry is saved and
\* committed on its own; an entry that raises is skipped.
RECURSIVE SaveCommitsToHistory(_, _, _, _)
SaveCommitsToHistory(cs, repository_id, commits_data, faults) ==
    IF commits_data = <<>> THEN cs
    ELSE LET info == CommitInfo(repository_id, Head(commits_data))
             next == IF info.raised THEN cs
                     ELSE SaveCommitHistory(cs, info, Head(commits_data).sha \in faults).commits
         IN SaveCommitsToHistory(next, repository_id, Tail(commits_data), faults)

\* GitHubService.get_commits for the repository row `repo` that
\* get_repository_by_name returned (None when there is none).
GetCommitsResult(us, rs, cs, u, repo, save_to_history, resp, faults) ==
    IF IsNone(GetUserToken(us, u))
    THEN [repos |-> rs, commits |-> cs, res |-> Raise(NoResult, "ValueError")]
    ELSE IF IsNone(repo)
    THEN [repos |-> rs, commits |-> cs, res |-> Raise(NoResult, "ValueError")]
    ELSE
    LET rs2 == IncrementAccessCount(rs, The(repo).id)
        cached == GetCachedCommits(cs, The(repo).id, MaxAgeMinutes)
        req == [NoResult EXCEPT !.called = TRUE]
    IN
    IF ~save_to_history /\ cached # {}
    THEN [repos |-> rs2, commits |-> cs,
          res |-> [NoResult EXCEPT !.status_code = 200, !.source = "cache",
                                   !.data = {c.commit_sha : c \in cached}]]
    ELSE IF resp.kind = "transport" \/ resp.status # 200
    THEN [repos |-> rs2, commits |-> cs, res |-> Raise(req, "ConnectionError")]
    ELSE [repos |-> rs2,
          commits |-> IF save_to_history
                      THEN SaveCommitsToHistory(cs, The(repo).id, resp.body, faults)
                      ELSE cs,
          res |-> [req EXCEPT !.status_code = 200, !.source = "github_api",
                              !.data = {resp.body[i].sha : i \in DOMAIN resp.body}]]

\* GET /repos/{user_id}: what the handler does with the dict that
\* get_user_repos returned.  include_archived is not passed on; when it is
\* false the entries of "data" whose key "archived" is true are dropped.
\* The entries are upstream dicts on the github_api path and stored rows
\* (read without the archived ones) on the other paths.
FilterArchived(rs, res, resp, include_archived) ==
    IF res.outcome # "ok" \/ include_archived THEN res
    ELSE IF res.source = "github_api"
    THEN [res EXCEPT !.data = {resp.body[i].id :
                                 i \in {j \in DOMAIN resp.body : ~resp.body[j].archived}}]
    ELSE [res EXCEPT !.data = {id \in @ : \A r \in rs :
                                 r.github_repo_id = id => ~r.archived}]

\* The HTTP status of GET /repos/{user_id} and of GET /commits/...: the
\* handlers turn ValueError into 400 and ConnectionError into 502; any
\* other exception ends as 500 (caught in get_commits, unhandled in
\* get_repos).
EndpointStatus(outcome) ==
    CASE outcome = "ok" -> 200
      [] outcome = "ValueError" -> 400
      [] outcome = "ConnectionError" -> 502
      [] OTHER -> 500

\* The pending changes of a session on the commit table: the dicts whose
\* row was found (attributes set on it) and the dicts added as new rows.
EmptyCommitPlan == [updates |-> <<>>, inserts |-> <<>>]

ZeroCounts == [saved_count |-> 0, updated_count |-> 0, failed_count |-> 0]

\* (mutant) the index on (repository_id, commit_sha) declared without
\* unique=True.
CommitKeyViolation_Off(cs, inserts) == FALSE

\* The unique index idx_commit_repo_sha (models.py).
CommitKeyViolation(cs, inserts) ==
    \/ \E i \in 1 .. Len(inserts) :
          GetCommitBySha(cs, inserts[i].repository_id, inserts[i].commit_sha) # {}
    \/ \E i, j \in 1 .. Len(inserts) :
          /\ i # j
          /\ inserts[i].repository_id = inserts[j].repository_id
          /\ inserts[i].commit_sha = inserts[j].commit_sha

\* The loop of batch_save_commits over the table as the session reads it
\* (autoflush is off: a row added earlier in the loop is not found).  A
\* dict without the key commit_sha raises in the loop and is counted failed.
RECURSIVE BatchLoop(_, _, _)
BatchLoop(cs, commits_data, acc) ==
    IF commits_data = <<>> THEN acc
    ELSE LET info == Head(commits_data)
             step ==
               IF info.commit_sha = Missing
               THEN [acc EXCEPT !.counts.failed_count = @ + 1]
               ELSE IF GetCommitBySha(cs, info.repository_id, info.commit_sha) # {}
               THEN [acc EXCEPT !.plan.updates = Append(@, info),
                                !.counts.updated_count = @ + 1]
               ELSE [acc EXCEPT !.plan.inserts = Append(@, info),
                                !.counts.saved_count = @ + 1]
         IN BatchLoop(cs, Tail(commits_data), step)

\* The UPDATEs of a flush, in order.
RECURSIVE ApplyCommitUpdates(_, _)
ApplyCommitUpdates(cs, updates) ==
    IF updates = <<>> THEN cs
    ELSE LET info == Head(updates)
             found == GetCommitBySha(cs, info.repository_id, info.commit_sha)
             next == IF found = {} THEN cs
                     ELSE (cs \ found) \cup {CommitRow(info, found)}
         IN ApplyCommitUpdates(next, Tail(updates))

\* (mutant) a failing commit reports the failure and keeps the writes.
FlushCommits_Keep(cs, plan, fault) ==
    IF CommitKeyViolation(cs, plan.inserts)
    THEN [ok |-> FALSE, commits |-> cs]
    ELSE [ok |-> ~fault,
          commits |-> ApplyCommitUpdates(cs, plan.updates)
                      \cup {CommitRow(plan.inserts[i], None) : i \in 1 .. Len(plan.inserts)}]

\* self.db.commit() followed, when it raises, by self.db.rollback(): the
\* pending changes are written in one transaction or not at all.  `fault`
\* is a failure of the commit other than the unique index.
FlushCommits(cs, plan, fault) ==
    IF fault \/ CommitKeyViolation(cs, plan.inserts)
    THEN [ok |-> FALSE, commits |-> cs]
    ELSE [ok |-> TRUE,
          commits |-> ApplyCommitUpdates(cs, plan.updates)
                      \cup {CommitRow(plan.inserts[i], None) : i \in 1 .. Len(plan.inserts)}]

\* The dict batch_save_commits returns.
BatchResult(ok, counts, commits_data) ==
    IF ok THEN [success |-> TRUE, saved_count |-> counts.saved_count,
                updated_count |-> counts.updated_count,
                failed_count |-> counts.failed_count,
                total_processed |-> Len(commits_data)]
    ELSE [success |-> FALSE]

MinutesPerDay == 1440

\* (mutant) the sweep goes by the date of the commit.
CleanupOldCommits_ByCommitDate(cs, repository_id, days_to_keep) ==
    LET cutoff_date == LocalNow.t - MinutesPerDay * days_to_keep
        gone == {c \in cs : c.repository_id = repository_id
                            /\ c.committed_at.t < cutoff_date}
    IN [commits |-> cs \ gone, deleted_count |-> Cardinality(gone)]

\* CommitHistoryService.cleanup_old_commits: the table after the DELETE and
\* the number of rows it removed.
CleanupOldCommits(cs, repository_id, days_to_keep) ==
    LET cutoff_date == LocalNow.t - MinutesPerDay * days_to_keep
        gone == {c \in cs : c.repository_id = repository_id
                            /\ c.cached_at.t < cutoff_date}
    IN [commits |-> cs \ gone, deleted_count |-> Cardinality(gone)]

\* The sum of a column over a set of rows.
RECURSIVE SumColumn(_, _)
SumColumn(rows, col) ==
    IF rows = {} THEN 0
    ELSE LET c == CHOOSE x \in rows : TRUE IN c[col] + SumColumn(rows \ {c}, col)

\* CommitHistoryService.get_commits_stats.  The query labels four
\* aggregates; the returned dict also reads stats.unique_authors, whose
\* label is commented out of the query, and the row has no such attribute.
GetCommitsStats(cs, repository_id) ==
    LET rows == {c \in cs : c.repository_id = repository_id} IN
    [outcome |-> "AttributeError",
     total_commits |-> Cardinality(rows),
     total_additions |-> SumColumn(rows, "additions"),
     total_deletions |-> SumColumn(rows, "deletions"),
     total_files_changed |-> SumColumn(rows, "file_count")]

----------------------------------------------------------------------------
(* UserService *)

\* A row of user_account with the columns the service writes.
UserRow(id, github_id, token, username, email) ==
    [id |-> id, github_id |-> github_id, github_access_token |-> token,
     username |-> username, email |-> email]

\* UserService.get_user_by_github_id, as a set of at most one row.
GetUserByGithubId(us, github_id) == {u \in us : u.github_id = github_id}

\* github_access_token and username are declared nullable=False and have
\* no default: a row without one of them is refused by the database.
NotNullViolation(row) ==
    IsNone(row.github_access_token) \/ IsNone(row.username)

\* UserService.create_or_update_user for the profile dict of the upstream
\* (keys id, login, email).  The new row is built from the profile alone,
\* so its github_access_token is NULL; commit raises on a refused row and
\* the method has no handler.
CreateOrUpdateUser(us, profile) ==
    LET found == GetUserByGithubId(us, profile.id)
        id == IF us = {} THEN 1
              ELSE (CHOOSE u \in us : \A v \in us : v.id <= u.id).id + 1
        new == UserRow(id, profile.id, None, Some(profile.login), profile.email)
    IN IF found # {}
       THEN [users |-> (us \ found)
                       \cup {[u EXCEPT !.username = Some(profile.login),
                                       !.email = profile.email] : u \in found},
             outcome |-> "ok"]
       ELSE IF NotNullViolation(new)
       THEN [users |-> us, outcome |-> "IntegrityError"]
       ELSE [users |-> us \cup {new}, outcome |-> "ok"]

\* UserService.update_user_token
UpdateUserToken(us, user_id, access_token) ==
    {IF u.id = user_id THEN [u EXCEPT !.github_access_token = Some(access_token)]
     ELSE u : u \in us}

----------------------------------------------------------------------------
(* POST /pr_generation *)

\* A request as the router sees it: the path, whether the JSON body is an
\* object with the key "commits" or a bare list, and the commits, each
\* with its message and whether its fields have the types of
\* schemas.Commit.
PrRequest(path, body, commits_) == [path |-> path, body |-> body, commits |-> commits_]

\* pr_generation_handler: the stub.
PrGenerationHandler(commits_) == [title |-> "Test PR", body |-> "This is a test PR body"]

\* The route and its handler: a path with no route is answered 404 by the
\* router, a body that does not validate as PRGenerationRequest 422, and
\* a validated request gets what the stub returns.
PrGeneration(req) ==
    IF req.path # "/pr_generation" THEN [status |-> 404, title |-> Missing]
    ELSE IF req.body # "object" \/ \E i \in DOMAIN req.commits : ~req.commits[i].typed
    THEN [status |-> 422, title |-> Missing]
    ELSE [status |-> 200, title |-> PrGenerationHandler(req.commits).title]

----------------------------------------------------------------------------
(* Inputs *)

SeqsUpTo(S, n) == UNION {[1 .. k -> S] : k \in 0 .. n}

OtherStatuses == {201, 404}

\* The responses of the upstream to the repository-list request, for the
\* given ETag headers and bodies of a 200 response.
RepoResponses(etags, lists) ==
    {TransportFailure}
    \cup {HttpResponse(st, None, <<>>) : st \in {304} \cup OtherStatuses}
    \cup {HttpResponse(200, e, body) : e \in etags, body \in lists}

Ok200(etags, lists) == {HttpResponse(200, e, body) : e \in etags, body \in lists}

AnyETag == {None} \cup {Some(x) : x \in ETags}

\* Repository lists that exercise the reconciliation: repository 1 with every
\* "updated_at" (absent, T1, T2) and without a name, the other repositories
\* with one timestamp and without a name.
SyncEntries ==
    {RemoteEntry(1, "a", upd, FALSE) : upd \in {None, Some(StrZ(T1)), Some(StrZ(T2))}}
    \cup {RemoteEntry(1, Missing, Some(StrZ(T2)), FALSE)}
    \cup {RemoteEntry(id, "b", Some(StrZ(T1)), FALSE) : id \in GhIds \ {1}}
    \cup {RemoteEntry(id, Missing, Some(StrZ(T1)), FALSE) : id \in GhIds \ {1}}

SyncLists == SeqsUpTo(SyncEntries, MaxRemote)

\* Repository lists of well-formed entries with one timestamp.
PlainEntries == {RemoteEntry(id, "a", Some(StrZ(T1)), FALSE) : id \in GhIds}
PlainLists == SeqsUpTo(PlainEntries, MaxRemote)

----------------------------------------------------------------------------
(* State machine *)

InitLast ==
    [op |-> "init", user |-> 0, force |-> FALSE, name |-> "", save |-> FALSE,
     resp |-> NoResponse, res |-> NoResult]

\* The users exist before the service runs (no endpoint creates them); the
\* other tables are empty.
InitTables ==
    /\ users = [u \in UserIds |->
                  [github_access_token |-> "token", preferences |-> None]]
    /\ repos = {}
    /\ commits = {}
    /\ now = 0
    /\ sessions = <<>>
    /\ last = InitLast

Init == InitTables /\ env = [tz |-> 0, dbtz |-> 0]

\* Time passes between requests: the clock moves to a later reading.
Tick(instants) ==
    /\ \E t \in instants : t > now /\ now' = t
    /\ last' = [InitLast EXCEPT !.op = "tick"]
    /\ UNCHANGED <<users, repos, commits, env, sessions>>

\* GET /repos/{user_id}: GitHubService.get_user_repos served in one piece.
GetUserRepos(u, force_refresh, resp) ==
    LET r == GetUserReposResult(users, repos, u, force_refresh, resp) IN
    /\ users' = r.users
    /\ repos' = r.repos
    /\ last' = [InitLast EXCEPT !.op = "get_user_repos", !.user = u,
                                !.force = force_refresh,
                                !.resp = IF r.res.called THEN resp ELSE NoResponse,
                                !.res = r.res]
    /\ UNCHANGED <<commits, now, env, sessions>>

MaxAccess == 2          \* requests counted per repository

\* GET /commits/{user_id}/{owner}/{repository_name}: GitHubService.get_commits
\* served in one piece.
GetCommits(u, repo_name, save_to_history, resp, faults) ==
    \E repo \in IF RepositoriesByName(repos, u, repo_name) = {} THEN {None}
                 ELSE {Some(r) : r \in RepositoriesByName(repos, u, repo_name)} :
      LET r == GetCommitsResult(users, repos, commits, u, repo, save_to_history,
                                resp, faults) IN
      /\ \A x \in repo : x.access_count < MaxAccess
      /\ repos' = r.repos
      /\ commits' = r.commits
      /\ last' = [InitLast EXCEPT !.op = "get_commits", !.user = u,
                                  !.name = repo_name, !.save = save_to_history,
                                  !.resp = IF r.res.called THEN resp ELSE NoResponse,
                                  !.res = r.res]
      /\ UNCHANGED <<users, now, env, sessions>>

\* Commit listings (entries without "files") of one author and one date.
ListedCommits == {CommitEntry("s1", "m", "x@y", Some(StrZ(T1)), None)}

CommitResponses(lists) ==
    {TransportFailure, HttpResponse(404, None, <<>>)}
    \cup {HttpResponse(200, None, body) : body \in lists}

\* One user: forced fetches of the repository list and commit listings of
\* the repositories named "a".
Next ==
    \/ \E resp \in Ok200({None}, PlainLists) : GetUserRepos(1, TRUE, resp)
    \/ \E resp \in CommitResponses(SeqsUpTo(ListedCommits, 1)) :
          GetCommits(1, "a", TRUE, resp, {})

Spec == Init /\ [][Next]_vars

\* Two users whose upstream lists hold the same repositories.
NextShared ==
    \E u \in UserIds, resp \in Ok200({None}, PlainLists) : GetUserRepos(u, TRUE, resp)

SpecShared == Init /\ [][NextShared]_vars

\* One user whose upstream list changes in every way between forced fetches
\* (forced, so that every request reaches the sync).
NextSync ==
    \/ Tick({0, 61})
    \/ \E resp \in Ok200({None}, SyncLists) : GetUserRepos(1, TRUE, resp)

SpecSync == Init /\ [][NextSync]_vars

\* One user, lists of at most one repository: every response of the upstream, with and
\* without validators, forced and not, before and after the cache expires.
EtagLists == SeqsUpTo(PlainEntries, 1)

NextEtag ==
    \/ Tick({0, 61})
    \/ \E u \in {1, NoUser}, f \in BOOLEAN, resp \in RepoResponses(AnyETag, EtagLists) :
          GetUserRepos(u, f, resp)

SpecEtag == Init /\ [][NextEtag]_vars

\* The freshness window: servers in several time zones, requests at ages
\* around the window.
Instants == {0, 59, 60, 61}
TzOffsets == {0, 540, -60}

InitZones == InitTables /\ env \in [tz : TzOffsets, dbtz : {0}]

NextFresh ==
    \/ Tick(Instants)
    \/ \E f \in BOOLEAN, resp \in Ok200({None}, EtagLists) : GetUserRepos(1, f, resp)

SpecFresh == InitZones /\ [][NextFresh]_vars

----------------------------------------------------------------------------
(* Requests in flight at the same time *)

MaxSessions == 2        \* requests served concurrently

SessionIds == 1 .. MaxSessions

Idle == [pc |-> "idle", user |-> 0, resp |-> NoResponse, req |-> NoResult,
         plan |-> EmptyPlan, stats |-> ZeroStats]

InitConc ==
    /\ users = [u \in UserIds |->
                  [github_access_token |-> "token", preferences |-> None]]
    /\ repos = {}
    /\ commits = {}
    /\ now = 0
    /\ env = [tz |-> 0, dbtz |-> 0]
    /\ sessions = [s \in SessionIds |-> Idle]
    /\ last = InitLast

\* A forced fetch answered 200, up to the commit of its sync: the validator
\* is stored, the rows of the user are read and the changes are pending in
\* the session of the request.  A fault in the loop ends the request here.
SyncBegin(s, u, resp) ==
    LET req == RepoRequest(users, u, TRUE)
        p == SyncPlan(repos, u, resp.body, GetCurrentUtcDatetime)
    IN /\ sessions[s].pc = "idle"
       /\ ~IsNone(GetUserToken(users, u))
       /\ IsOk(resp.status)
       /\ users' = StoreResponseEtag(users, u, resp)
       /\ IF p.outcome # "ok"
          THEN /\ sessions' = sessions
               /\ last' = [InitLast EXCEPT !.op = "get_user_repos", !.user = u,
                                           !.force = TRUE, !.resp = resp,
                                           !.res = Raise(req, p.outcome)]
          ELSE /\ sessions' = [sessions EXCEPT ![s] =
                                  [pc |-> "commit", user |-> u, resp |-> resp,
                                   req |-> req, plan |-> p.plan, stats |-> p.stats]]
               /\ last' = [InitLast EXCEPT !.op = "sync_begin", !.user = u,
                                           !.force = TRUE]
       /\ UNCHANGED <<repos, commits, now, env>>

\* self.db.commit() of the sync, against the table as it is by then.
SyncCommit(s) ==
    LET q == sessions[s]
        c == CommitPlan(repos, q.plan)
    IN /\ q.pc = "commit"
       /\ repos' = c.repos
       /\ sessions' = [sessions EXCEPT ![s] = Idle]
       /\ last' = [InitLast EXCEPT !.op = "get_user_repos", !.user = q.user,
                                   !.force = TRUE, !.resp = q.resp,
                                   !.res = IF c.ok
                                           THEN SyncResult(q.req, q.resp, q.stats)
                                           ELSE Raise(q.req, "IntegrityError")]
       /\ UNCHANGED <<users, commits, now, env>>

\* Lists of at most one repository, one of them without a name.
ConcLists == EtagLists \cup {<<RemoteEntry(1, Missing, Some(StrZ(T1)), FALSE)>>}

\* Two requests at a time, for either user.
NextConc ==
    \/ \E s \in SessionIds, u \in UserIds, resp \in Ok200({None}, ConcLists) :
          SyncBegin(s, u, resp)
    \/ \E s \in SessionIds : SyncCommit(s)

SpecConc == InitConc /\ [][NextConc]_vars

----------------------------------------------------------------------------
(* The commit history on its own: CommitHistoryService called directly *)

\* UTC offsets of the database session's time zone.
DbOffsets == {0, 540}

MaxSha == 3             \* commits of a repository are s1 .. sMaxSha

ShaNames == <<"s1", "s2", "s3", "s4">>
Shas == {ShaNames[i] : i \in 1 .. MaxSha}

\* The entry of commit i in the upstream payload: i lines added in one
\* file, one line deleted except by the first commit, committed at day 0
\* (odd i) or at day 40 (even i).
HistoryEntry(i) ==
    CommitEntry(ShaNames[i], "m", "e",
                Some(StrZ(IF i % 2 = 1 THEN 0 ELSE 40 * MinutesPerDay)),
                Some(<<FileChange(i, IF i = 1 THEN 0 ELSE 1)>>))

\* The commit_info dicts saved: every commit of repository 1 and the first
\* commit of repository 2.
HistoryInfos ==
    {CommitInfo(1, HistoryEntry(i)) : i \in 1 .. MaxSha}
    \cup {CommitInfo(2, HistoryEntry(1))}

\* Two repositories of user 1 are stored, synced at instant 0; no commit is.
InitHistory ==
    /\ users = [u \in UserIds |->
                  [github_access_token |-> "token", preferences |-> None]]
    /\ repos = {RepoRow(1, 1, 1, "a", Some(Naive(T1)), FALSE, Some(Naive(0))),
                RepoRow(2, 2, 1, "b", Some(Naive(T1)), FALSE, Some(Naive(0)))}
    /\ commits = {}
    /\ now = 0
    /\ env \in [tz : {0}, dbtz : DbOffsets]
    /\ sessions = <<>>
    /\ last = InitLast

\* CommitHistoryService.save_commit_history(commit_info)
SaveCommit(info, fault) ==
    LET r == SaveCommitHistory(commits, info, fault) IN
    /\ commits' = r.commits
    /\ last' = [op |-> "save_commit_history", info |-> info, fault |-> fault,
                saved |-> r.saved]
    /\ UNCHANGED <<users, repos, now, env, sessions>>

\* CommitHistoryService.cleanup_old_commits(repository_id, days_to_keep)
Cleanup(repository_id, days_to_keep) ==
    LET r == CleanupOldCommits(commits, repository_id, days_to_keep) IN
    /\ commits' = r.commits
    /\ last' = [op |-> "cleanup_old_commits", repository_id |-> repository_id,
                days_to_keep |-> days_to_keep, deleted_count |-> r.deleted_count]
    /\ UNCHANGED <<users, repos, now, env, sessions>>

\* CommitHistoryService.get_commits_stats(repository_id)
Stats(repository_id) ==
    /\ last' = [op |-> "get_commits_stats", repository_id |-> repository_id,
                res |-> GetCommitsStats(commits, repository_id)]
    /\ UNCHANGED <<users, repos, commits, now, env, sessions>>

\* The instants of the retention example: days 0, 30, 35 and 40.
DayInstants == {d * MinutesPerDay : d \in {0, 30, 35, 40}}
KeepDays == {30}

NextCleanup ==
    \/ Tick(DayInstants)
    \/ \E info \in HistoryInfos : SaveCommit(info, FALSE)
    \/ \E id \in {1, 2}, d \in KeepDays : Cleanup(id, d)
    \/ \E id \in {1, 2} : Stats(id)

SpecCleanup ==
    InitHistory /\ [][NextCleanup]_vars

\* GitHubService._save_commits_to_history(repository_id, commits_data)
SaveCommits(repository_id, commits_data, faults) ==
    /\ commits' = SaveCommitsToHistory(commits, repository_id, commits_data, faults)
    /\ last' = [op |-> "_save_commits_to_history", repository_id |-> repository_id,
                commits_data |-> commits_data, faults |-> faults]
    /\ UNCHANGED <<users, repos, now, env, sessions>>

\* Commits 1 and 2 as a detail (with files), and commit 1 as the listing
\* gives it: another message, no key "files".
SaveEntries ==
    {HistoryEntry(1), HistoryEntry(2),
     CommitEntry(ShaNames[1], "m2", "e", Some(StrZ(0)), None)}

SaveLists == SeqsUpTo(SaveEntries, 2)

NextSave ==
    \/ Tick({0, 61})
    \/ \E d \in SaveEntries, fault \in BOOLEAN : SaveCommit(CommitInfo(1, d), fault)
    \/ \E list \in SaveLists, faults \in SUBSET {ShaNames[1], ShaNames[2]} :
          SaveCommits(1, list, faults)

SpecSave ==
    InitHistory /\ [][NextSave]_vars

----------------------------------------------------------------------------
(* Saves of commits in flight together *)

MaxBatch == 2           \* longest list given to batch_save_commits

\* The dicts saved: the three payloads of SaveEntries for repository 1, and
\* for a batch also a dict without the key commit_sha.
SaveInfos == {CommitInfo(1, d) : d \in SaveEntries}
BatchInfos ==
    SaveInfos \cup {[CommitInfo(1, HistoryEntry(1)) EXCEPT !.commit_sha = Missing]}
BatchLists == SeqsUpTo(BatchInfos, MaxBatch)

IdleWriter == [pc |-> "idle", commits_data |-> <<>>,
               plan |-> EmptyCommitPlan, counts |-> ZeroCounts]

InitBatch ==
    /\ users = [u \in UserIds |->
                  [github_access_token |-> "token", preferences |-> None]]
    /\ repos = {RepoRow(1, 1, 1, "a", Some(Naive(T1)), FALSE, Some(Naive(0))),
                RepoRow(2, 2, 1, "b", Some(Naive(T1)), FALSE, Some(Naive(0)))}
    /\ commits = {}
    /\ now = 0
    /\ env = [tz |-> 0, dbtz |-> 0]
    /\ sessions = [s \in SessionIds |-> IdleWriter]
    /\ last = InitLast

\* A call of save_commit_history or of batch_save_commits up to its commit:
\* the rows are looked up and the changes are pending in the session.
WriteBegin(s, pc, commits_data) ==
    LET acc == BatchLoop(commits, commits_data,
                         [plan |-> EmptyCommitPlan, counts |-> ZeroCounts])
    IN /\ sessions[s].pc = "idle"
       /\ sessions' = [sessions EXCEPT ![s] =
                          [pc |-> pc, commits_data |-> commits_data,
                           plan |-> acc.plan, counts |-> acc.counts]]
       /\ last' = [op |-> "begin"]
       /\ UNCHANGED <<users, repos, commits, now, env>>

SaveBegin(s, info) == WriteBegin(s, "save_commit_history", <<info>>)

BatchBegin(s, commits_data) == WriteBegin(s, "batch_save_commits", commits_data)

\* The commit of save_commit_history and what the call returns.
SaveEnd(s, fault) ==
    LET q == sessions[s]
        f == FlushCommits(commits, q.plan, fault)
    IN /\ q.pc = "save_commit_history"
       /\ commits' = f.commits
       /\ sessions' = [sessions EXCEPT ![s] = IdleWriter]
       /\ last' = [op |-> "save_commit_history", info |-> q.commits_data[1],
                   fault |-> ~f.ok, saved |-> f.ok]
       /\ UNCHANGED <<users, repos, now, env>>

\* The commit of batch_save_commits and what the call returns.
BatchEnd(s, fault) ==
    LET q == sessions[s]
        f == FlushCommits(commits, q.plan, fault)
    IN /\ q.pc = "batch_save_commits"
       /\ commits' = f.commits
       /\ sessions' = [sessions EXCEPT ![s] = IdleWriter]
       /\ last' = [op |-> "batch_save_commits", commits_data |-> q.commits_data,
                   tallied |-> q.counts,
                   res |-> BatchResult(f.ok, q.counts, q.commits_data)]
       /\ UNCHANGED <<users, repos, now, env>>

NextBatch ==
    \/ \E s \in SessionIds, info \in SaveInfos : SaveBegin(s, info)
    \/ \E s \in SessionIds, list \in BatchLists : BatchBegin(s, list)
    \/ \E s \in SessionIds, fault \in BOOLEAN : SaveEnd(s, fault)
    \/ \E s \in SessionIds, fault \in BOOLEAN : BatchEnd(s, fault)

SpecBatch == InitBatch /\ [][NextBatch]_vars

----------------------------------------------------------------------------
(* Requests for the commits and the repositories of known and unknown users *)

\* User 1 has the repository "a" and the archived repository "b".
InitAccess ==
    /\ users = [u \in UserIds |->
                  [github_access_token |-> "token", preferences |-> None]]
    /\ repos = {RepoRow(1, 1, 1, "a", Some(Naive(0)), FALSE, None),
                RepoRow(2, 2, 1, "b", Some(Naive(0)), TRUE, None)}
    /\ commits = {}
    /\ now = 0
    /\ env = [tz |-> 0, dbtz |-> 0]
    /\ sessions = <<>>
    /\ last = InitLast

\* Clock readings within and beyond max_age_minutes of a save at 0.
AccessInstants == {10, 40}

\* Commit listings of user 1 and of a user id that is in no row, for a
\* repository that resolves and one that does not, and repository-list
\* requests of the same callers.
NextAccess ==
    \/ Tick(AccessInstants)
    \/ \E u \in {1, NoUser}, repo_name \in RepoNames, save_to_history \in BOOLEAN,
          resp \in CommitResponses(SeqsUpTo(ListedCommits, 1)) :
          GetCommits(u, repo_name, save_to_history, resp, {})
    \/ \E u \in {1, NoUser}, force_refresh \in BOOLEAN,
          resp \in {TransportFailure, HttpResponse(304, None, <<>>)} :
          GetUserRepos(u, force_refresh, resp)

SpecAccess == InitAccess /\ [][NextAccess]_vars

----------------------------------------------------------------------------
(* Sign-ins: profiles of the upstream upserted into user_account *)

MaxGithubId == 3        \* upstream user ids 1 .. MaxGithubId

Logins == {"x", "y"}
Emails == {None, Some("e")}
Tokens == {"token", "token2"}
Profiles ==
    [id : 1 .. MaxGithubId, login : Logins, email : Emails]

\* Two users are stored, those of the upstream ids 1 and 2.
InitUsers ==
    /\ users = {UserRow(1, 1, Some("token"), Some("x"), None),
                UserRow(2, 2, Some("token"), Some("y"), None)}
    /\ repos = {}
    /\ commits = {}
    /\ now = 0
    /\ env = [tz |-> 0, dbtz |-> 0]
    /\ sessions = <<>>
    /\ last = [op |-> "init"]

UpsertUser(profile) ==
    LET r == CreateOrUpdateUser(users, profile) IN
    /\ users' = r.users
    /\ last' = [op |-> "create_or_update_user", profile |-> profile,
                outcome |-> r.outcome]
    /\ UNCHANGED <<repos, commits, now, env, sessions>>

SetToken(user_id, access_token) ==
    /\ users' = UpdateUserToken(users, user_id, access_token)
    /\ last' = [op |-> "update_user_token"]
    /\ UNCHANGED <<repos, commits, now, env, sessions>>

NextUsers ==
    \/ \E profile \in Profiles : UpsertUser(profile)
    \/ \E u \in users, access_token \in Tokens : SetToken(u.id, access_token)

SpecUsers == InitUsers /\ [][NextUsers]_vars

----------------------------------------------------------------------------
(* Favorites and lookups by name over repositories of two users *)

MaxOwned == 4           \* repository rows 1 .. MaxOwned

\* Rows 1 and 2 belong to user 1 and rows 3 and up to user 2; rows 1, 2
\* and 3 have the name "a".
OwnedRow(id, arch) ==
    RepoRow(id, id, IF id <= 2 THEN 1 ELSE 2, IF id <= 3 THEN "a" ELSE "b",
            Some(Naive(0)), arch, None)

\* Every combination of archived flags.
InitOwned ==
    /\ users = [u \in UserIds |->
                  [github_access_token |-> "token", preferences |-> None]]
    /\ \E arch \in [1 .. MaxOwned -> BOOLEAN] :
          repos = {OwnedRow(id, arch[id]) : id \in 1 .. MaxOwned}
    /\ commits = {}
    /\ now = 0
    /\ env = [tz |-> 0, dbtz |-> 0]
    /\ sessions = <<>>
    /\ last = [op |-> "init"]

\* POST /repos/{user_id}/{repo_id}/favorite
ToggleFavoriteRepository(u, repo_id) ==
    LET r == ToggleFavorite(repos, u, repo_id) IN
    /\ repos' = r.repos
    /\ last' = [op |-> "toggle_favorite", user |-> u, repository_id |-> repo_id,
                is_favorited |-> r.ret]
    /\ UNCHANGED <<users, commits, now, env, sessions>>

\* A call of get_repository_by_name: first() gives one of the matching
\* rows, or None.
GetRepositoryByName(u, repo_name) ==
    \E repo \in IF RepositoriesByName(repos, u, repo_name) = {} THEN {None}
                 ELSE {Some(r) : r \in RepositoriesByName(repos, u, repo_name)} :
      /\ last' = [op |-> "get_repository_by_name", user |-> u, name |-> repo_name,
                  repo |-> repo]
      /\ UNCHANGED <<users, repos, commits, now, env, sessions>>

NextOwned ==
    \/ \E u \in UserIds \cup {NoUser}, repo_id \in 1 .. MaxOwned + 1 :
          ToggleFavoriteRepository(u, repo_id)
    \/ \E u \in UserIds \cup {NoUser}, repo_name \in RepoNames :
          GetRepositoryByName(u, repo_name)

SpecOwned == InitOwned /\ [][NextOwned]_vars

----------------------------------------------------------------------------
(* increment_access_count and toggle_favorite in flight together *)

\* A session that has made no call yet.
IdleMutator == [pc |-> "idle", call |-> "none", read |-> None, plan |-> EmptyPlan]

\* The row with the id as a session loads it (None when there is none).
LoadById(rs, id) == {r \in rs : r.id = id}

InitRace ==
    /\ users = [u \in UserIds |->
                  [github_access_token |-> "token", preferences |-> None]]
    /\ repos = {RepoRow(1, 1, 1, "a", Some(Naive(0)), FALSE, None),
                RepoRow(2, 2, 2, "b", Some(Naive(0)), FALSE, None)}
    /\ commits = {}
    /\ now = 0
    /\ env = [tz |-> 0, dbtz |-> 0]
    /\ sessions = [s \in SessionIds |-> IdleMutator]
    /\ last = [op |-> "init"]

\* The first half of a call: the row is loaded and the attribute is
\* assigned on the loaded object; the UPDATE of the changed column is
\* pending until the commit.
MutationBegin(s, call, found, new) ==
    /\ sessions[s].pc # "pending"
    /\ sessions' = [sessions EXCEPT ![s] =
                       [pc |-> "pending", call |-> call, read |-> found,
                        plan |-> [EmptyPlan EXCEPT
                                    !.updates = {NetChange(The(found), new)}]]]
    /\ last' = [op |-> "begin"]
    /\ UNCHANGED <<users, repos, commits, now, env>>

\* increment_access_count up to its commit.
IncrementBegin(s, repository_id) ==
    LET found == LoadById(repos, repository_id) IN
    /\ ~IsNone(found)
    /\ The(found).access_count < MaxAccess
    /\ MutationBegin(s, "increment_access_count", found,
                     [The(found) EXCEPT !.access_count = @ + 1])

\* toggle_favorite up to its commit.
ToggleBegin(s, u, repository_id) ==
    LET found == LoadById(repos, repository_id) IN
    /\ ~IsNone(found)
    /\ The(found).user_id = u
    /\ MutationBegin(s, "toggle_favorite", found,
                     [The(found) EXCEPT !.is_favorited = ~@])

\* (mutant) the commit redoes the call on the row as it is by then.
FlushMutation_Reread(rs, q) ==
    IF q.call = "increment_access_count"
    THEN IncrementAccessCount(rs, The(q.read).id)
    ELSE ToggleFavorite(rs, The(q.read).user_id, The(q.read).id).repos

\* self.db.commit() of the call: the pending UPDATE is written to the
\* table as it is by then.
FlushMutation(rs, q) == CommitPlan(rs, q.plan).repos

MutationCommit(s) ==
    LET q == sessions[s] IN
    /\ q.pc = "pending"
    /\ repos' = FlushMutation(repos, q)
    /\ sessions' = [sessions EXCEPT ![s].pc = "done"]
    /\ last' = [op |-> "commit", call |-> q.call, read |-> The(q.read)]
    /\ UNCHANGED <<users, commits, now, env>>

NextRace ==
    \/ \E s \in SessionIds, id \in 1 .. 2 : IncrementBegin(s, id)
    \/ \E s \in SessionIds, u \in UserIds, id \in 1 .. 2 : ToggleBegin(s, u, id)
    \/ \E s \in SessionIds : MutationCommit(s)

SpecRace == InitRace /\ [][NextRace]_vars

----------------------------------------------------------------------------
(* Repository fetches with and without the archived repositories *)

\* Upstream lists of two repositories, the second archived or not; a list
\* holds a repository once.
ArchivedEntries ==
    {RemoteEntry(1, "a", Some(StrZ(T1)), FALSE)}
    \cup {RemoteEntry(2, "b", Some(StrZ(T1)), arch) : arch \in BOOLEAN}
ArchivedLists ==
    {l \in SeqsUpTo(ArchivedEntries, MaxRemote) :
        \A i, j \in DOMAIN l : i # j => l[i].id # l[j].id}

\* GET /repos/{user_id}?force_refresh=..&include_archived=..
GetRepos(u, force_refresh, include_archived, resp) ==
    LET r == GetUserReposResult(users, repos, u, force_refresh, resp) IN
    /\ users' = r.users
    /\ repos' = r.repos
    /\ last' = [op |-> "get_repos", user |-> u, force |-> force_refresh,
                include_archived |-> include_archived,
                resp |-> IF r.res.called THEN resp ELSE NoResponse,
                res |-> FilterArchived(r.repos, r.res, resp, include_archived)]
    /\ UNCHANGED <<commits, now, env, sessions>>

NextArchived ==
    \/ Tick({0, 61})
    \/ \E force_refresh \in BOOLEAN, include_archived \in BOOLEAN,
          resp \in RepoResponses({None}, ArchivedLists) :
          GetRepos(1, force_refresh, include_archived, resp)

SpecArchived == Init /\ [][NextArchived]_vars

----------------------------------------------------------------------------
(* PR-generation requests *)

MaxPrCommits == 3       \* longest list of commits in a request

\* Commits of two messages, well typed or not; the path the route is
\* declared on and the one test_pr_generation posts to; both body shapes.
PrCommits == [message : {"m", "m2"}, typed : BOOLEAN]
PrPaths == {"/pr_generation", "/generate_pr"}
PrBodies == {"object", "list"}

PrGenerationCall(req) ==
    /\ last' = [op |-> "pr_generation", req |-> req, res |-> PrGeneration(req)]
    /\ UNCHANGED <<users, repos, commits, now, env, sessions>>

NextPr ==
    \E path \in PrPaths, body \in PrBodies, commits_ \in SeqsUpTo(PrCommits, MaxPrCommits) :
        PrGenerationCall(PrRequest(path, body, commits_))

SpecPr == Init /\ [][NextPr]_vars

----------------------------------------------------------------------------
(* Syncs over rows that carry local state *)

\* User 1 has a favorited repository that was accessed once, user 2 has
\* another one.
InitLocal ==
    /\ users = [u \in UserIds |->
                  [github_access_token |-> "token", preferences |-> None]]
    /\ repos = {[RepoRow(1, 1, 1, "a", Some(Naive(T1)), FALSE, Some(Naive(0)))
                    EXCEPT !.is_favorited = TRUE, !.access_count = 1],
                [RepoRow(2, 2, 2, "b", Some(Naive(T1)), FALSE, Some(Naive(0)))
                    EXCEPT !.is_favorited = TRUE, !.access_count = 1]}
    /\ commits = {}
    /\ now = 0
    /\ env = [tz |-> 0, dbtz |-> 0]
    /\ sessions = <<>>
    /\ last = InitLast

\* Remote lists naming either repository, not newer or newer than stored,
\* the first one also flagged archived.
LocalEntries ==
    {RemoteEntry(id, "c", Some(StrZ(t)), FALSE) : id \in GhIds, t \in {T1, T2}}
    \cup {RemoteEntry(1, "c", Some(StrZ(T2)), TRUE)}
LocalLists == SeqsUpTo(LocalEntries, MaxRemote)

NextLocal ==
    \/ \E u \in UserIds, resp \in Ok200({None}, LocalLists) : GetUserRepos(u, TRUE, resp)
    \/ \E u \in UserIds, repo_id \in 1 .. MaxRepoId : ToggleFavoriteRepository(u, repo_id)

SpecLocal == InitLocal /\ [][NextLocal]_vars

----------------------------------------------------------------------------
(* Validators and syncs that raise *)

\* Upstream lists of one repository, with its name and without it (the
\* sync raises KeyError on the latter when it creates the row).
ValidatorEntries ==
    {RemoteEntry(1, n, Some(StrZ(T1)), FALSE) : n \in {"a", Missing}}
ValidatorLists == SeqsUpTo(ValidatorEntries, 1)

\* One user; the upstream answers 200 with or without a validator, or 304
\* to a request that carried a validator.
NextValidator ==
    \/ Tick({0, 61, 122})
    \/ \E f \in BOOLEAN, resp \in Ok200(AnyETag, ValidatorLists) :
          GetUserRepos(1, f, resp)
    \/ \E f \in BOOLEAN :
          /\ ~IsNone(StoredEtag(users, 1, f))
          /\ GetUserRepos(1, f, HttpResponse(304, None, <<>>))

SpecValidator == Init /\ [][NextValidator]_vars

----------------------------------------------------------------------------
(* Syncs over remote timestamps of every kind *)

\* Repository 1 with "updated_at" absent, well-formed and malformed, and
\* the other repositories with a well-formed and a malformed one.
StampEntries ==
    {RemoteEntry(1, "a", upd, FALSE) :
        upd \in {None, Some(StrZ(T1)), Some(StrZ(T2)), Some(StrBad)}}
    \cup {RemoteEntry(id, "b", upd, FALSE) :
             id \in GhIds \ {1}, upd \in {Some(StrZ(T1)), Some(StrBad)}}

StampLists == SeqsUpTo(StampEntries, MaxRemote)

NextStamp ==
    \/ Tick({0, 61})
    \/ \E resp \in Ok200({None}, StampLists) : GetUserRepos(1, TRUE, resp)

SpecStamp == Init /\ [][NextStamp]_vars

\* Repository 1 with "updated_at" in every well-formed shape: Z, a positive
\* and a negative offset.  The strings with an offset read instants between,
\* at and after T1 and T2 while their wall-clock readings order otherwise.
OffsetEntries ==
    {RemoteEntry(1, "a", Some(upd), FALSE) :
        upd \in {StrZ(T1), StrZ(T2),
                 StrPlus(T1 + 60, 60), StrPlus(T2 + 65, 60),
                 StrMinus(T1 - 55, 60), StrMinus(T2 - 60, 60)}}

OffsetLists == SeqsUpTo(OffsetEntries, 1)

InitOffset == InitTables /\ env \in [tz : {0}, dbtz : DbOffsets]

NextOffset ==
    \/ Tick({0, 61})
    \/ \E resp \in Ok200({None}, OffsetLists) : GetUserRepos(1, TRUE, resp)

SpecOffset == InitOffset /\ [][NextOffset]_vars

----------------------------------------------------------------------------
(* _parse_github_datetime on its own *)

MaxStamp == 2           \* timestamp strings read 0 .. MaxStamp hours

ParseTimes == {60 * k : k \in 0 .. MaxStamp}
ParseOffsets == {60}

\* The timestamp strings of every shape, and the absent value.
TimestampStrings ==
    {StrZ(t) : t \in ParseTimes} \cup {StrNaive(t) : t \in ParseTimes}
    \cup {StrPlus(t, off) : t \in ParseTimes, off \in ParseOffsets}
    \cup {StrMinus(t, off) : t \in ParseTimes, off \in ParseOffsets}
    \cup {StrBad}

ParseInputs == {None} \cup {Some(x) : x \in TimestampStrings}

\* Two arguments are chosen; nothing is stored.
InitParse ==
    /\ users = [u \in UserIds |->
                  [github_access_token |-> "token", preferences |-> None]]
    /\ repos = {}
    /\ commits = {}
    /\ now = 0
    /\ env = [tz |-> 0, dbtz |-> 0]
    /\ sessions = <<>>
    /\ \E a, b \in ParseInputs : last = [op |-> "input", args |-> <<a, b>>]

\* _parse_github_datetime is called on each of the two arguments.
ParseCall ==
    /\ last.op = "input"
    /\ last' = [op |-> "_parse_github_datetime", args |-> last.args,
                out |-> <<ParseGithubDatetime(last.args[1]),
                          ParseGithubDatetime(last.args[2])>>]
    /\ UNCHANGED <<users, repos, commits, now, env, sessions>>

NextParse == ParseCall

SpecParse == InitParse /\ [][NextParse]_vars

----------------------------------------------------------------------------
(* Vocabulary of the properties *)

\* The UTC instant a timestamp string denotes.
StrInstant(s) == s.t - s.off

IsFetch(l) == l.op = "get_user_repos"

\* The fetch returned the result of an incremental sync.
Synced(l) == IsFetch(l) /\ l.res.outcome = "ok" /\ l.res.source = "github_api"

\* The fetch received a 200 response and the sync raised.
SyncFaulted(l) ==
    /\ IsFetch(l) /\ l.res.called /\ l.resp.kind = "http" /\ l.resp.status = 200
    /\ l.res.outcome # "ok"

RemoteIds(l) == {l.resp.body[i].id : i \in DOMAIN l.resp.body}

RowById(rs, id) == CHOOSE r \in rs : r.id = id

----------------------------------------------------------------------------
(* C1 *)

\* C1: no step removes a repository row; and after a sync that returned,
\* every row of the user whose upstream id the remote list lacks is still
\* there with archived = TRUE, is not returned by
\* get_user_repositories(user, include_archived = False), and its commit
\* records are still stored.
C1_ArchiveNotDelete ==
    [][/\ \A r \in repos : \E r2 \in repos' : r2.id = r.id
       /\ Synced(last') =>
            \A r \in repos :
                r.user_id = last'.user /\ r.github_repo_id \notin RemoteIds(last')
                => /\ RowById(repos', r.id).archived
                   /\ RowById(repos', r.id).github_repo_id = r.github_repo_id
                   /\ RowById(repos', r.id) \notin
                          GetUserRepositories(repos', last'.user, FALSE)
                   /\ RowById(repos', r.id) \in
                          GetUserRepositories(repos', last'.user, TRUE)
                   /\ {c \in commits : c.repository_id = r.id} # {}
                        => {c \in commits : c.repository_id = r.id} \subseteq commits']_vars

\* A sync returned whose remote list lacks a stored repository of the user
\* that has commit records: the row is archived, the records are stored.
C1_Witness ==
    /\ Synced(last)
    /\ \E r \in repos :
         /\ r.user_id = last.user /\ r.github_repo_id \notin RemoteIds(last)
         /\ r.archived
         /\ \E c \in commits : c.repository_id = r.id

----------------------------------------------------------------------------
(* C2 *)

\* C2 (as claimed): when a user without repository rows and without a
\* stored validator fetches and the upstream answers 200 with a list of n
\* distinct well-formed repositories, the request carries no If-None-Match,
\* exactly n rows are inserted for the user (is_favorited false,
\* access_count 0, last_synced_at set) and the result has sync_stats
\* {created: n, updated: 0, deleted: 0, unchanged: 0} and source github_api.
C2_FirstFetchCreatesAll ==
    [][( /\ IsFetch(last') /\ last'.res.called
         /\ last'.resp.kind = "http" /\ last'.resp.status = 200
         /\ last'.user \in DOMAIN users
         /\ IsNone(users[last'.user].preferences)
         /\ \A r \in repos : r.user_id # last'.user )
       => /\ IsNone(last'.res.sent)
          /\ last'.res.outcome = "ok"
          /\ last'.res.source = "github_api"
          /\ last'.res.sync_stats =
                [created |-> Cardinality(RemoteIds(last')), updated |-> 0,
                 deleted |-> 0, unchanged |-> 0]
          /\ {r.github_repo_id : r \in {x \in repos' : x.user_id = last'.user}}
                = RemoteIds(last')
          /\ Cardinality({x \in repos' : x.user_id = last'.user})
                = Cardinality(RemoteIds(last'))
          /\ \A r \in repos' :
                r.user_id = last'.user
                => /\ ~r.is_favorited /\ r.access_count = 0
                   /\ r.last_synced_at = Some(Naive(now))]_vars

----------------------------------------------------------------------------
(* C3 *)

\* The remote "updated_at" of entry e is strictly newer than the stored one
\* of row r, or the stored one is absent.
C3_NewerOrStoredAbsent(e, r) ==
    \/ IsNone(r.repo_updated_at)
    \/ /\ ~IsNone(e.updated_at)
       /\ StrInstant(The(e.updated_at)) > Instant(The(r.repo_updated_at))

C3_Overwritten(r, r2, e) ==
    /\ r2.name = e.name
    /\ r2.archived = e.archived
    /\ r2.repo_updated_at =
         (IF IsNone(e.updated_at) THEN None
          ELSE Some(Naive(StrInstant(The(e.updated_at)))))
    /\ r2.last_synced_at = Some(Naive(now))

\* C3 (as claimed): in a sync, a remote repository already stored for the
\* user is overwritten and counted 'updated' exactly when its remote updated
\* timestamp is strictly newer than the stored one or the stored one is
\* absent; otherwise it is counted 'unchanged' and its row is not written.
C3_UpdateExactlyWhenNewerOrAbsent ==
    [][Synced(last') =>
        LET map == GithubRepoMap(last'.resp.body)
            both == {r \in repos : r.user_id = last'.user
                                   /\ r.github_repo_id \in DOMAIN map}
            upd == {r \in both : C3_NewerOrStoredAbsent(map[r.github_repo_id], r)}
        IN /\ last'.res.sync_stats.updated = Cardinality(upd)
           /\ last'.res.sync_stats.unchanged = Cardinality(both \ upd)
           /\ \A r \in both :
                /\ \E r2 \in repos' : r2.id = r.id
                /\ IF r \in upd
                   THEN C3_Overwritten(r, RowById(repos', r.id), map[r.github_repo_id])
                   ELSE RowById(repos', r.id) = r]_vars

----------------------------------------------------------------------------
(* C4 *)

\* A repository of user u was synced less than the window ago.
C4_Fresh(rs, u) ==
    \E r \in rs : /\ r.user_id = u /\ ~IsNone(r.last_synced_at)
                  /\ now - The(r.last_synced_at).t < 60 * MaxAgeHours

\* C4 (as claimed): a non-forced fetch returns the non-archived repositories
\* of the user from the store (source 'cache', no upstream call) if and only
\* if a repository of the user was synced less than the window ago.
C4_CachePathIffFresh ==
    [][(IsFetch(last') /\ ~last'.force /\ last'.user \in DOMAIN users)
       => IF C4_Fresh(repos, last'.user)
          THEN /\ last'.res.outcome = "ok"
               /\ last'.res.source = "cache"
               /\ ~last'.res.called
               /\ last'.res.data =
                    ReposToIds({r \in repos : r.user_id = last'.user /\ ~r.archived})
          ELSE last'.res.called]_vars

----------------------------------------------------------------------------
(* C5 *)

\* C5: when the upstream answers 304, the fetch returns the stored
\* non-archived repositories of the user with source 'etag_cache', and no
\* table changes: no repository row, last_synced_at or validator is written.
C5_NotModifiedWritesNothing ==
    [][(IsFetch(last') /\ last'.res.called
        /\ last'.resp.kind = "http" /\ last'.resp.status = 304)
       => /\ last'.res.outcome = "ok"
          /\ last'.res.source = "etag_cache"
          /\ last'.res.data =
                {r.github_repo_id : r \in {x \in repos : x.user_id = last'.user /\ ~x.archived}}
          /\ repos' = repos /\ users' = users /\ commits' = commits]_vars

\* A 304 answered a conditional request of a user who has an archived and
\* a non-archived repository.
C5_Witness ==
    /\ IsFetch(last) /\ last.res.called /\ last.resp.status = 304
    /\ ~IsNone(last.res.sent)
    /\ last.res.data # {}
    /\ \E r \in repos : r.user_id = last.user /\ r.archived

----------------------------------------------------------------------------
(* C6 *)

\* C6 (as claimed): after a 200 response carrying validator E the
\* preferences of the user hold repos_etag = E, whatever was stored before,
\* and the result reports etag_updated and new_etag = E.
C6_ValidatorStored ==
    [][(IsFetch(last') /\ last'.res.called /\ last'.resp.kind = "http"
        /\ last'.resp.status = 200 /\ ~IsNone(last'.resp.etag))
       => /\ ~IsNone(users'[last'.user].preferences)
          /\ The(users'[last'.user].preferences).repos_etag = The(last'.resp.etag)
          /\ last'.res.outcome = "ok"
               => last'.res.etag_updated /\ last'.res.new_etag = last'.resp.etag]_vars

----------------------------------------------------------------------------
(* C7 *)

\* C7: when the repository-list call ends in a transport failure or in a
\* status other than 200 and 304, the fetch raises ConnectionError and no
\* repository row and no validator is written.
C7_FailureWritesNothing ==
    [][(IsFetch(last') /\ last'.res.called
        /\ (last'.resp.kind = "transport" \/ last'.resp.status \notin {200, 304}))
       => /\ last'.res.outcome = "ConnectionError"
          /\ repos' = repos /\ users' = users]_vars

\* A status other than 200 and 304 reached a user who has a non-archived
\* repository and a stored validator.
C7_Witness ==
    /\ IsFetch(last) /\ last.res.called /\ last.resp.kind = "http"
    /\ last.resp.status \in OtherStatuses
    /\ last.res.outcome = "ConnectionError"
    /\ ~IsNone(users[last.user].preferences)
    /\ \E r \in repos : r.user_id = last.user /\ ~r.archived

----------------------------------------------------------------------------
(* C8 *)

\* C8: a forced fetch of an existing user always issues the upstream
\* request, and the request carries no If-None-Match header.
C8_ForcedIsUnconditional ==
    (IsFetch(last) /\ last.force /\ last.user \in DOMAIN users)
        => last.res.called /\ IsNone(last.res.sent)

\* A forced fetch was served while the user had a repository synced within
\* the window and a stored validator.
C8_Witness ==
    /\ IsFetch(last) /\ last.force /\ last.user \in DOMAIN users
    /\ last.res.called
    /\ last.resp.kind = "http" /\ last.resp.status = 304
    /\ RecentRepo(repos, last.user) # {}
    /\ ~IsNone(users[last.user].preferences)

----------------------------------------------------------------------------
(* C9 *)

\* C9: a sync is all-or-nothing.  When it raises, the repository table is
\* what it was before the request; when it returns, every repository of the
\* remote list has a row of the user and every row of the user that the
\* remote list lacks is archived, all in the same step.
C9_SyncAllOrNothing ==
    [][/\ SyncFaulted(last') => repos' = repos
       /\ Synced(last') =>
            /\ \A g \in RemoteIds(last') :
                 \E r2 \in repos' : r2.github_repo_id = g /\ r2.user_id = last'.user
            /\ \A r \in repos :
                 r.user_id = last'.user /\ r.github_repo_id \notin RemoteIds(last')
                     => RowById(repos', r.id).archived]_vars

\* A sync raised on its second entry after a creation was pending for its
\* first entry, and no row of that first repository is stored.
C9_Witness ==
    /\ SyncFaulted(last) /\ last.res.outcome = "KeyError"
    /\ Len(last.resp.body) = 2
    /\ last.resp.body[1].name # Missing
    /\ last.resp.body[2].name = Missing
    /\ last.resp.body[1].id # last.resp.body[2].id
    /\ \A r \in repos : r.github_repo_id # last.resp.body[1].id

----------------------------------------------------------------------------
(* C10 *)

\* C10: in every reachable state no two repository rows share an upstream
\* id (github_repo_id), whichever users the syncs ran for and however two
\* syncs interleaved.
C10_UpstreamIdUnique ==
    \A r1, r2 \in repos : r1.github_repo_id = r2.github_repo_id => r1 = r2

\* Two syncs of one user listing the same new repository were in flight
\* together: the second commit was refused and the repository has its one
\* row.
C10_Witness ==
    /\ IsFetch(last) /\ last.res.outcome = "IntegrityError"
    /\ \E r \in repos : r.github_repo_id \in RemoteIds(last) /\ r.user_id = last.user

----------------------------------------------------------------------------
(* C11 *)

\* The calls of _parse_github_datetime just made.
Parsed == last.op = "_parse_github_datetime"

\* C11 (as claimed): _parse_github_datetime never raises, and for a
\* malformed timestamp string it returns None.
C11_ParseNeverRaises ==
    Parsed => \A i \in {1, 2} :
                /\ ~last.out[i].raised
                /\ (~IsNone(last.args[i]) /\ The(last.args[i]).shape = "bad")
                     => IsNone(last.out[i].val)

----------------------------------------------------------------------------
(* C14 *)

\* The argument is a well-formed timestamp string.
WellFormed(o) == ~IsNone(o) /\ The(o).shape # "bad"

\* C14 (as claimed): for every well-formed timestamp string, whatever its
\* shape, _parse_github_datetime returns a value without an offset that
\* reads the UTC instant of the string; two strings of the same instant
\* parse to equal values.
C14_ParseToNaiveUtc ==
    Parsed =>
        /\ \A i \in {1, 2} :
              WellFormed(last.args[i])
              => /\ ~last.out[i].raised
                 /\ ~IsNone(last.out[i].val)
                 /\ ~The(last.out[i].val).aware
                 /\ The(last.out[i].val).t = StrInstant(The(last.args[i]))
        /\ ( /\ WellFormed(last.args[1]) /\ WellFormed(last.args[2])
             /\ StrInstant(The(last.args[1])) = StrInstant(The(last.args[2])) )
           => last.out[1] = last.out[2]

----------------------------------------------------------------------------
(* C12 *)

\* The "updated_at" of the remote entry is missing or unparseable.
RemoteStampAbsent(e) == IsNone(e.updated_at) \/ The(e.updated_at).shape = "bad"

\* C12 (as claimed): when a fetch is answered 200 and the remote entry of a
\* repository stored for the user has no usable updated timestamp, the
\* sync returns, overwrites the row (name, archived flag, last_synced_at)
\* and counts it 'updated', not 'unchanged'.
C12_AbsentRemoteStampUpdates ==
    [][( /\ IsFetch(last') /\ last'.res.called
         /\ last'.resp.kind = "http" /\ last'.resp.status = 200 )
       => LET map == GithubRepoMap(last'.resp.body)
              both == {r \in repos : r.user_id = last'.user
                                     /\ r.github_repo_id \in DOMAIN map}
              absent == {r \in both : RemoteStampAbsent(map[r.github_repo_id])}
          IN absent # {}
             => /\ last'.res.outcome = "ok"
                /\ last'.res.sync_stats.updated >= Cardinality(absent)
                /\ last'.res.sync_stats.unchanged <= Cardinality(both \ absent)
                /\ \A r \in absent :
                     /\ RowById(repos', r.id).name = map[r.github_repo_id].name
                     /\ RowById(repos', r.id).last_synced_at = Some(Naive(now))]_vars

----------------------------------------------------------------------------
(* C13 *)

\* The "updated_at" of the remote entry carries an offset.
RemoteStampHasOffset(e) ==
    ~IsNone(e.updated_at) /\ The(e.updated_at).shape \in {"plus", "minus"}

\* C13: when the remote entry of a stored repository carries a timestamp
\* with an offset and the stored timestamp has none, the update check does
\* not fault, and the row is overwritten exactly when the UTC instant of
\* the remote string is later than the stored reading taken as UTC.
C13_OffsetComparedInUtc ==
    [][( /\ IsFetch(last') /\ last'.res.called
         /\ last'.resp.kind = "http" /\ last'.resp.status = 200 )
       => LET map == GithubRepoMap(last'.resp.body)
              both == {r \in repos : /\ r.user_id = last'.user
                                     /\ r.github_repo_id \in DOMAIN map
                                     /\ RemoteStampHasOffset(map[r.github_repo_id])
                                     /\ ~IsNone(r.repo_updated_at)
                                     /\ ~The(r.repo_updated_at).aware}
          IN both # {}
             => /\ last'.res.outcome = "ok"
                /\ \A r \in both :
                     LET e == map[r.github_repo_id]
                         later == StrInstant(The(e.updated_at)) > The(r.repo_updated_at).t
                     IN IF later
                        THEN /\ last'.res.sync_stats.updated >= 1
                             /\ RowById(repos', r.id).repo_updated_at # r.repo_updated_at
                             /\ RowById(repos', r.id).last_synced_at = Some(Naive(now))
                        ELSE /\ last'.res.sync_stats.unchanged >= 1
                             /\ RowById(repos', r.id) = r]_vars

\* A remote timestamp with a negative offset, whose wall-clock reading is
\* earlier than every stored timestamp and whose UTC instant is later than
\* T1, overwrote a stored row.
C13_Witness ==
    /\ Synced(last)
    /\ Len(last.resp.body) = 1
    /\ last.resp.body[1].updated_at = Some(StrMinus(T1 - 55, 60))
    /\ last.res.sync_stats.updated = 1
    /\ \E r \in repos : r.repo_updated_at = Some(Naive(T1 + 5 + env.dbtz))

----------------------------------------------------------------------------
(* C19 *)

\* C19: cleanup_old_commits(repository_id, days_to_keep) deletes exactly
\* the commit records of that repository whose cached_at is earlier than
\* the server's clock minus days_to_keep days and returns their number;
\* the records of other repositories and the records cached later stay,
\* whatever their committed_at.
C19_CleanupByCacheAge ==
    [][last'.op = "cleanup_old_commits" =>
        LET cutoff == now + env.tz - MinutesPerDay * last'.days_to_keep
            old == {c \in commits : /\ c.repository_id = last'.repository_id
                                    /\ c.cached_at.t < cutoff}
        IN /\ commits' = commits \ old
           /\ last'.deleted_count = Cardinality(old)]_vars

\* The retention example: at day 40 the sweep of repository 1 with
\* days_to_keep = 30 removed one record; its records cached at days 30
\* and 35 stay, one of them of a commit made at day 0, and so does the
\* record of repository 2 cached at day 0.
C19_Witness ==
    /\ last.op = "cleanup_old_commits"
    /\ last.repository_id = 1 /\ last.days_to_keep = 30
    /\ last.deleted_count = 1
    /\ now = 40 * MinutesPerDay
    /\ Cardinality({c \in commits : c.repository_id = 1}) = 2
    /\ \E c \in commits : /\ c.repository_id = 1
                           /\ c.cached_at.t >= 35 * MinutesPerDay
                           /\ c.committed_at.t < 10 * MinutesPerDay
    /\ \E c \in commits : /\ c.repository_id = 1
                           /\ c.cached_at.t >= 30 * MinutesPerDay
                           /\ c.cached_at.t < 35 * MinutesPerDay
    /\ \E c \in commits : /\ c.repository_id = 2
                           /\ c.cached_at.t < 10 * MinutesPerDay

----------------------------------------------------------------------------
(* C20 *)

\* C20 (as claimed): get_commits_stats(repository_id) returns the number
\* of stored commits of the repository and the sums of their additions,
\* deletions and file counts.
C20_StatsAreCountAndSums ==
    last.op = "get_commits_stats" =>
        LET rows == {c \in commits : c.repository_id = last.repository_id} IN
        /\ last.res.outcome = "ok"
        /\ last.res.total_commits = Cardinality(rows)
        /\ last.res.total_additions = SumColumn(rows, "additions")
        /\ last.res.total_deletions = SumColumn(rows, "deletions")
        /\ last.res.total_files_changed = SumColumn(rows, "file_count")

----------------------------------------------------------------------------
(* C15 *)

\* The stored record c holds the payload of the commit_info dict.
SamePayload(c, info) ==
    /\ c.repository_id = info.repository_id /\ c.commit_sha = info.commit_sha
    /\ c.commit_message = info.commit_message
    /\ c.author_email = info.author_email
    /\ c.committed_at = DbTimestamp(info.committed_at)
    /\ info.has_files => /\ c.files_changed = info.files_changed
                         /\ c.file_count = info.file_count
                         /\ c.additions = info.additions
                         /\ c.deletions = info.deletions

\* C15 (as claimed): when save_commit_history is called with a payload
\* that is already stored under its (repository_id, commit_sha), there is
\* exactly one record of the key afterwards, its fields are those stored
\* before, and its cached_at is not earlier than before.
C15_SaveTwiceIsIdempotent ==
    [][(last'.op = "save_commit_history" /\ ~last'.fault)
       => \A c \in commits :
            SamePayload(c, last'.info)
            => LET key == {x \in commits' : /\ x.repository_id = c.repository_id
                                            /\ x.commit_sha = c.commit_sha}
               IN /\ Cardinality(key) = 1
                  /\ \A x \in key : /\ [x EXCEPT !.cached_at = c.cached_at] = c
                                     /\ x.cached_at.t >= c.cached_at.t]_vars

----------------------------------------------------------------------------
(* C17 *)

\* The commit records of a key.
RecordsOf(cs, repository_id, sha) ==
    {c \in cs : c.repository_id = repository_id /\ c.commit_sha = sha}

\* C17: a persistence fault inside save_commit_history makes the call
\* return None and leaves the commit records as they were; in the loop of
\* _save_commits_to_history the records of a commit whose save faults are
\* as before, and every other commit of the list is saved.
C17_FaultIsSwallowed ==
    [][/\ (last'.op = "save_commit_history" /\ last'.fault)
          => ~last'.saved /\ commits' = commits
       /\ last'.op = "_save_commits_to_history"
          => \A i \in DOMAIN last'.commits_data :
               LET sha == last'.commits_data[i].sha IN
               IF sha \in last'.faults
               THEN RecordsOf(commits', last'.repository_id, sha)
                      = RecordsOf(commits, last'.repository_id, sha)
               ELSE \E c \in RecordsOf(commits', last'.repository_id, sha) :
                      c.cached_at.t >= now + env.tz]_vars

\* The loop ran over two commits: the save of the first faulted and its
\* record, written before, is as it was; the second commit was saved.
C17_Witness ==
    /\ last.op = "_save_commits_to_history"
    /\ Len(last.commits_data) = 2
    /\ last.commits_data[1].sha \in last.faults
    /\ last.commits_data[2].sha \notin last.faults
    /\ now = 61
    /\ \E c \in RecordsOf(commits, last.repository_id, last.commits_data[1].sha) :
          /\ c.cached_at.t < now + env.tz
          /\ c.commit_message # last.commits_data[1].message
    /\ \E c \in RecordsOf(commits, last.repository_id, last.commits_data[2].sha) :
          c.cached_at.t >= now + env.tz

----------------------------------------------------------------------------
(* C16 *)

\* C16: in every reachable state there is at most one commit record per
\* (repository_id, commit_sha), however the calls of save_commit_history
\* and batch_save_commits interleave and whatever a batch lists.
C16_CommitKeyUnique ==
    \A c1, c2 \in commits :
        (c1.repository_id = c2.repository_id /\ c1.commit_sha = c2.commit_sha)
            => c1 = c2

\* A save of a commit was refused at its commit because another session
\* had stored the commit in between, while a batch listing one commit
\* twice is pending in the other session.
C16_Witness ==
    /\ last.op = "save_commit_history" /\ ~last.saved
    /\ \E c \in commits : /\ c.repository_id = last.info.repository_id
                           /\ c.commit_sha = last.info.commit_sha
                           /\ c.commit_message # last.info.commit_message
    /\ \E s \in SessionIds :
          /\ sessions[s].pc = "batch_save_commits"
          /\ Len(sessions[s].plan.inserts) = 2
          /\ sessions[s].plan.inserts[1].commit_sha = sessions[s].plan.inserts[2].commit_sha

----------------------------------------------------------------------------
(* C18 *)

\* C18: when the commit at the end of batch_save_commits fails, the call
\* returns {success: false} and the commit table is as it was before the
\* commit, whatever had been tallied; when it succeeds, every dict of the
\* list that has a commit_sha has its record, all written in that step,
\* and the counts returned are those tallied.
C18_BatchAllOrNothing ==
    [][last'.op = "batch_save_commits" =>
        IF ~last'.res.success
        THEN commits' = commits
        ELSE /\ \A i \in DOMAIN last'.commits_data :
                  last'.commits_data[i].commit_sha # Missing
                  => RecordsOf(commits', last'.commits_data[i].repository_id,
                               last'.commits_data[i].commit_sha) # {}
             /\ last'.res.saved_count = last'.tallied.saved_count
             /\ last'.res.updated_count = last'.tallied.updated_count
             /\ last'.res.total_processed = Len(last'.commits_data)]_vars

\* A batch that had tallied one update and one insert failed at its
\* commit: the record to update holds another message than the batch's
\* and the commit to insert has no record.
C18_Witness ==
    /\ last.op = "batch_save_commits" /\ ~last.res.success
    /\ last.tallied.updated_count = 1 /\ last.tallied.saved_count = 1
    /\ Len(last.commits_data) = 2
    /\ \E c \in RecordsOf(commits, 1, last.commits_data[1].commit_sha) :
          c.commit_message # last.commits_data[1].commit_message
    /\ RecordsOf(commits, 1, last.commits_data[2].commit_sha) = {}

----------------------------------------------------------------------------
(* C21 *)

\* The repository a commit listing of user u for the name resolves to, as
\* a set: empty when the user has no token or no such active repository.
Resolved(us, rs, u, repo_name) ==
    IF IsNone(GetUserToken(us, u)) THEN {} ELSE RepositoriesByName(rs, u, repo_name)

\* C21: every get_commits request that resolves its repository raises the
\* access_count of that repository by exactly one and changes no other
\* repository row, whether the commits are served from the cache, fetched
\* from the upstream, or the upstream call fails.
C21_EachRequestCountsOnce ==
    [][(last'.op = "get_commits"
        /\ Resolved(users, repos, last'.user, last'.name) # {})
       => \E r \in Resolved(users, repos, last'.user, last'.name) :
            repos' = (repos \ {r}) \cup {[r EXCEPT !.access_count = @ + 1]}]_vars

\* After a listing fetched upstream and saved, a second listing was served
\* from the cache, and the repository counts MaxAccess requests.
C21_Witness ==
    /\ last.op = "get_commits" /\ last.res.source = "cache"
    /\ \E r \in repos : r.name = last.name /\ r.access_count = MaxAccess

----------------------------------------------------------------------------
(* C25 *)

\* C25: a get_commits request whose repository has commits cached within
\* the last MaxAgeMinutes is answered from the store with no upstream
\* call, for either value of save_to_history.
C25_FreshCacheIsServed ==
    [][(last'.op = "get_commits"
        /\ \E r \in Resolved(users, repos, last'.user, last'.name) :
              GetCachedCommits(commits, r.id, MaxAgeMinutes) # {})
       => (~last'.res.called /\ last'.res.source = "cache")]_vars

----------------------------------------------------------------------------
(* C27 *)

\* What get_commits yields for a caller whose id is in no row: the
\* validation fault of the operation.
ValidationFault ==
    GetCommitsResult(users, repos, commits, NoUser, None, TRUE, NoResponse, {}).res

\* C27: a commit listing of a known user that names a repository which
\* does not resolve ends in a not-found outcome: it fails, and with
\* another status than the validation fault of the operation.
C27_NotFoundIsDistinct ==
    [][(last'.op = "get_commits"
        /\ last'.user \in UserIds
        /\ Resolved(users, repos, last'.user, last'.name) = {})
       => /\ last'.res.outcome # "ok"
          /\ EndpointStatus(last'.res.outcome) # EndpointStatus(ValidationFault.outcome)]_vars

----------------------------------------------------------------------------
(* C28 *)

\* C28: a repository fetch or a commit listing for a user id that is in
\* no row calls no upstream, writes nothing, and ends with a client-error
\* status.
C28_UnknownUserIsClientError ==
    [][(last'.op \in {"get_user_repos", "get_commits"} /\ last'.user \notin UserIds)
       => /\ ~last'.res.called
          /\ UNCHANGED <<users, repos, commits>>
          /\ EndpointStatus(last'.res.outcome) \in 400 .. 499]_vars

----------------------------------------------------------------------------
(* C29 *)

\* C29: create_or_update_user returns normally; for a stored upstream id
\* it sets the profile fields of that user and leaves its token and every
\* other row as they were, for an unknown upstream id it adds one user of
\* that id; afterwards exactly one user has the upstream id.
C29_UpsertByUpstreamId ==
    [][last'.op = "create_or_update_user" =>
        LET profile == last'.profile
            found == GetUserByGithubId(users, profile.id)
            after == GetUserByGithubId(users', profile.id)
        IN /\ last'.outcome = "ok"
           /\ Cardinality(after) = 1
           /\ users' \ after = users \ found
           /\ \A v \in after :
                 /\ v.username = Some(profile.login)
                 /\ v.email = profile.email
                 /\ \A u \in found : /\ v.id = u.id
                                       /\ v.github_access_token = u.github_access_token]_vars

----------------------------------------------------------------------------
(* C22 *)

\* C22: toggle_favorite(user_id, repository_id) negates is_favorited of
\* the row with that id when user_id owns it, changes no other row and
\* returns the new value; otherwise it returns false and changes no row.
C22_ToggleOwnedOnly ==
    [][last'.op = "toggle_favorite" =>
        LET owned == {r \in repos : r.id = last'.repository_id
                                     /\ r.user_id = last'.user}
        IN IF owned = {}
           THEN repos' = repos /\ ~last'.is_favorited
           ELSE \E r \in owned :
                  /\ repos' = (repos \ {r}) \cup {[r EXCEPT !.is_favorited = ~@]}
                  /\ last'.is_favorited = ~r.is_favorited]_vars

\* A user asked to toggle a favorited repository of the other user: the
\* call returned false and the repository is still favorited.
C22_Witness ==
    /\ last.op = "toggle_favorite" /\ ~last.is_favorited
    /\ \E r \in repos : /\ r.id = last.repository_id
                         /\ r.user_id # last.user
                         /\ last.user \in UserIds
                         /\ r.is_favorited

----------------------------------------------------------------------------
(* C23 *)

\* C23: what get_repository_by_name(user_id, name) returns is a stored,
\* non-archived repository of user_id with that name, and it returns the
\* absent value only when the user has no such repository.
C23_ByNameSkipsArchived ==
    [][last'.op = "get_repository_by_name" =>
        /\ \A r \in last'.repo : /\ r \in repos
                                  /\ r.user_id = last'.user
                                  /\ r.name = last'.name
                                  /\ ~r.archived
        /\ IsNone(last'.repo) =>
              ~\E r \in repos : /\ r.user_id = last'.user
                                 /\ r.name = last'.name
                                 /\ ~r.archived]_vars

\* The lookup returned the absent value for a name under which the user
\* has an archived repository and the other user has an active one.
C23_Witness ==
    /\ last.op = "get_repository_by_name" /\ IsNone(last.repo)
    /\ \E r \in repos : r.user_id = last.user /\ r.name = last.name /\ r.archived
    /\ \E r \in repos : r.user_id # last.user /\ r.name = last.name /\ ~r.archived

----------------------------------------------------------------------------
(* C30 *)

\* C30: the commit of increment_access_count (of toggle_favorite) writes
\* the value computed from the row as the call loaded it, whatever other
\* calls committed since: of two concurrent calls on one repository both
\* commit and the later one overwrites the earlier one.
C30_CommitWritesFromOwnRead ==
    [][last'.op = "commit" =>
        LET r == RowById(repos', last'.read.id) IN
        /\ last'.call = "increment_access_count"
              => r.access_count = last'.read.access_count + 1
        /\ last'.call = "toggle_favorite"
              => r.is_favorited = ~last'.read.is_favorited]_vars

\* Two increment_access_count calls on a repository never accessed before
\* have both committed and its access_count is one.
C30_Witness ==
    /\ \A s \in SessionIds :
          /\ sessions[s].pc = "done"
          /\ sessions[s].call = "increment_access_count"
          /\ The(sessions[s].read).id = 1
          /\ The(sessions[s].read).access_count = 0
    /\ RowById(repos, 1).access_count = 1

----------------------------------------------------------------------------
(* C24 *)

\* C24: an upstream call of the repository fetch maps its outcome: any
\* 2xx status is a success (not a connectivity failure), 304 is the
\* not-modified signal, any other status and a transport failure are
\* connectivity failures.
C24_OutcomeMapping ==
    [][(last'.op = "get_user_repos" /\ last'.res.called) =>
        LET resp == last'.resp
            res == last'.res
        IN CASE resp.kind = "transport" -> res.outcome = "ConnectionError"
             [] resp.kind = "http" /\ resp.status \in 200 .. 299 ->
                   res.outcome # "ConnectionError"
             [] resp.kind = "http" /\ resp.status = 304 ->
                   res.outcome = "ok" /\ res.source = "etag_cache"
             [] OTHER -> res.outcome = "ConnectionError"]_vars

----------------------------------------------------------------------------
(* C26 *)

\* C26: a repository fetch that returns, on any path, lists the archived
\* repositories of the user when include_archived is true and lists no
\* archived repository when it is false.
C26_ArchivedFlagHonoured ==
    [][(last'.op = "get_repos" /\ last'.res.outcome = "ok") =>
        \A r \in repos' :
           (r.user_id = last'.user /\ r.archived)
           => (r.github_repo_id \in last'.res.data <=> last'.include_archived)]_vars

----------------------------------------------------------------------------
(* C31 *)

\* C31: a PR-generation request carrying a list of well-typed commits is
\* answered with status 200 and the title "Test PR", whatever the commits
\* hold, and no table changes.
C31_PrGenerationIsFixed ==
    [][(last'.op = "pr_generation"
        /\ \A i \in DOMAIN last'.req.commits : last'.req.commits[i].typed)
       => /\ last'.res.status = 200
          /\ last'.res.title = "Test PR"
          /\ UNCHANGED <<users, repos, commits>>]_vars

----------------------------------------------------------------------------
(* C32 *)

\* C32: the counters of a sync that returned partition the remote and the
\* local set by upstream id: created + updated + unchanged is the number
\* of distinct remote ids, created the number of remote ids the user had
\* no row for, deleted the number of rows of the user whose id the remote
\* list lacks.
C32_CountersPartition ==
    [][Synced(last') =>
        LET ids == RemoteIds(last')
            mine == {r \in repos : r.user_id = last'.user}
            st == last'.res.sync_stats
        IN /\ st.created + st.updated + st.unchanged = Cardinality(ids)
           /\ st.created =
                 Cardinality({k \in ids : \A r \in mine : r.github_repo_id # k})
           /\ st.deleted =
                 Cardinality({r \in mine : r.github_repo_id \notin ids})]_vars

\* A sync returned for a list that names one stored repository twice and
\* lacks another stored repository.
C32_Witness ==
    /\ Synced(last)
    /\ Len(last.resp.body) > Cardinality(RemoteIds(last))
    /\ last.res.sync_stats.deleted = 1
    /\ last.res.sync_stats.updated + last.res.sync_stats.unchanged = 1

----------------------------------------------------------------------------
(* C33 *)

\* C33: when a sync returns whose remote list names, not flagged archived,
\* a repository of the user that an earlier sync had archived, the row is
\* non-archived afterwards, get_user_repositories and
\* get_repository_by_name return it, and its favorite flag, access count
\* and commit records are as before.
C33_ReappearedIsRestored ==
    [][Synced(last') =>
        \A r \in repos :
           (/\ r.user_id = last'.user /\ r.archived
            /\ r.github_repo_id \in RemoteIds(last')
            /\ ~GithubRepoMap(last'.resp.body)[r.github_repo_id].archived)
           => LET r2 == RowById(repos', r.id) IN
              /\ ~r2.archived
              /\ r2 \in GetUserRepositories(repos', last'.user, FALSE)
              /\ r2 \in RepositoriesByName(repos', last'.user, r2.name)
              /\ r2.is_favorited = r.is_favorited
              /\ r2.access_count = r.access_count
              /\ {c \in commits' : c.repository_id = r.id}
                    = {c \in commits : c.repository_id = r.id}]_vars

----------------------------------------------------------------------------
(* C34 *)

\* C34: a repository fetch, whatever its sync does, leaves is_favorited
\* and access_count of every stored row as they were and leaves the rows
\* of other users unchanged.
C34_SyncKeepsLocalState ==
    [][IsFetch(last') =>
        \A r \in repos :
           /\ \E r2 \in repos' : /\ r2.id = r.id
                                  /\ r2.is_favorited = r.is_favorited
                                  /\ r2.access_count = r.access_count
           /\ r.user_id # last'.user => r \in repos']_vars

\* A sync that updated a favorited, accessed repository of the user has
\* returned while the other user has a row too.
C34_Witness ==
    /\ Synced(last)
    /\ last.res.sync_stats.updated = 1
    /\ \E r \in repos : /\ r.user_id = last.user /\ r.name = "c"
                         /\ r.is_favorited /\ r.access_count = 1
    /\ \E r \in repos : r.user_id # last.user

----------------------------------------------------------------------------
(* C35 *)

\* C35: when save_commit_history saves a record without per-file detail
\* over a stored commit that holds files_changed, file_count, additions
\* and deletions, the record keeps these four values; its listed fields
\* are those of the incoming record and cached_at is the clock's reading.
C35_ListingKeepsDetail ==
    [][(last'.op = "save_commit_history" /\ last'.saved /\ ~last'.info.has_files)
       => \A c \in RecordsOf(commits, last'.info.repository_id, last'.info.commit_sha) :
            ~IsNone(c.files_changed)
            => \E x \in commits' :
                 /\ SamePayload(x, last'.info)
                 /\ x.files_changed = c.files_changed
                 /\ x.file_count = c.file_count
                 /\ x.additions = c.additions
                 /\ x.deletions = c.deletions
                 /\ x.cached_at = LocalNow
                 /\ commits' = (commits \ {c}) \cup {x}]_vars

\* A listing record with another message has been saved over a stored
\* detail: the record has the new message and still one file.
C35_Witness ==
    /\ last.op = "save_commit_history" /\ last.saved /\ ~last.info.has_files
    /\ \E x \in RecordsOf(commits, last.info.repository_id, last.info.commit_sha) :
          /\ x.commit_message = last.info.commit_message
          /\ x.file_count = 1 /\ x.additions = 1
          /\ ~IsNone(x.files_changed)

----------------------------------------------------------------------------
(* C36 *)

\* The table after save_commit_history has been called, without a failure
\* of the database, on each dict of the list in list order.
RECURSIVE SaveEach(_, _)
SaveEach(cs, commits_data) ==
    IF commits_data = <<>> THEN cs
    ELSE SaveEach(SaveCommitHistory(cs, Head(commits_data), FALSE).commits,
                  Tail(commits_data))

\* C36: a batch_save_commits over a list of dicts that all have their
\* keys, a list naming the same new (repository_id, commit_sha) twice
\* included, whose commit meets no failure of the database, succeeds; the
\* commit table after it is the table that save_commit_history on each
\* dict in list order gives, and saved_count + updated_count +
\* failed_count equals total_processed.
C36_BatchIsSaveEach ==
    [][\A s \in SessionIds :
         (/\ BatchEnd(s, FALSE)
          /\ \A i \in DOMAIN sessions[s].commits_data :
                sessions[s].commits_data[i].commit_sha # Missing)
         => /\ last'.res.success
            /\ commits' = SaveEach(commits, sessions[s].commits_data)
            /\ last'.res.saved_count + last'.res.updated_count
                  + last'.res.failed_count = last'.res.total_processed]_vars

----------------------------------------------------------------------------
(* C37 *)

\* C37: the validator stored for a user changes only in a fetch whose
\* incremental sync has committed and returned; a fetch that received 200
\* and whose sync raised leaves the stored validator as it was.
C37_ValidatorFollowsSync ==
    [][\A u \in UserIds :
         users'[u].preferences # users[u].preferences
         => Synced(last') /\ last'.user = u]_vars

----------------------------------------------------------------------------
(* C38 *)

\* C38: directly after a fetch of a user has returned a "github_api"
\* result for a non-empty upstream list (whatever the sync counted), a
\* non-forced fetch of the same user at the same instant returns the
\* stored list with source "cache" and issues no upstream request.
C38_FreshAfterSync ==
    [][(/\ Synced(last) /\ last.resp.body # <<>>
        /\ IsFetch(last') /\ ~last'.force /\ last'.user = last.user)
       => /\ last'.res.outcome = "ok"
          /\ last'.res.source = "cache"
          /\ ~last'.res.called]_vars

====
